---- MODULE Spec2Model ----
(***************************************************************************)
(* Verification model of the tsv-enst time-windowed aggregation and        *)
(* metric-derivation engine: window aggregators, TSV normalizer, work-unit *)
(* and ENST computation, cost conversion and policy throttling.            *)
(*                                                                         *)
(* JavaScript values are modelled as tagged records:                       *)
(*   null, undefined, NaN, +/-Infinity, strings (sequences of one-char     *)
(*   strings) and finite numbers.  A finite number is the exact rational   *)
(*   n/d * 10^e in canonical form (d > 0 coprime to 10 and to n, n not a   *)
(*   multiple of 10), so that 3.6e9, 1e9, 1e10 and 1e13 are representable  *)
(*   with TLC's 32-bit integers.  IEEE rounding and the sign of zero are   *)
(*   not modelled: arithmetic is exact.                                    *)
(***************************************************************************)
EXTENDS Integers, Sequences, FiniteSets, TLC

VARIABLES
    tsv,        \* function harness: the TSV record the functions are applied to
    out,        \* function harness: the last call and what it returned
    cost,       \* cost harness: the arguments of the cost functions
    power,      \* PowerAggregator instances: windows (Map, in insertion order)
    powerFed,   \* per PowerAggregator instance: the records fed so far
    powerOut,   \* per PowerAggregator instance: the last emit() output
    usage,      \* UsageAggregator instances: windows (Map, in insertion order)
    usageFed,   \* per UsageAggregator instance: the records fed so far
    usageOut,   \* per UsageAggregator instance: the last emit() output
    norm,       \* TsvNormalizer: usageByKey / powerByKey (Maps, insertion order)
    normOut,    \* TsvNormalizer: the last emit() output
    board,      \* per pipeline run: the EnstLeaderboard (sites Map, options)
    boardOut    \* per pipeline run: the records fed, the last results returned

vars == <<tsv, out, cost, power, powerFed, powerOut, usage, usageFed, usageOut,
          norm, normOut, board, boardOut>>

-----------------------------------------------------------------------------
(* JavaScript values                                                       *)

Null == [k |-> "null"]
Undef == [k |-> "undef"]
NaN == [k |-> "nan"]
Infinity == [k |-> "inf", sgn |-> 1]
Str(s) == [k |-> "str", s |-> s]
Bool(b) == [k |-> "bool", b |-> b]
\* a string whose characters the code never inspects
Word(w) == [k |-> "word", w |-> w]

AbsInt(x) == IF x < 0 THEN -x ELSE x
Sgn(x) == IF x < 0 THEN -1 ELSE IF x > 0 THEN 1 ELSE 0
MinInt(x, y) == IF x < y THEN x ELSE y

RECURSIVE GCD(_, _)
GCD(a, b) == IF b = 0 THEN a ELSE GCD(b, a % b)

RECURSIVE Pow10(_)
Pow10(p) == IF p = 0 THEN 1 ELSE 10 * Pow10(p - 1)

\* <<n, d, e>> stands for n/d * 10^e: move the factors 2 and 5 of d into e
RECURSIVE StripDen(_)
StripDen(t) ==
    IF t[2] % 2 = 0 THEN StripDen(<<5 * t[1], t[2] \div 2, t[3] - 1>>)
    ELSE IF t[2] % 5 = 0 THEN StripDen(<<2 * t[1], t[2] \div 5, t[3] - 1>>)
    ELSE t

\* move the factors 10 of n into e
RECURSIVE StripNum(_)
StripNum(t) ==
    IF t[1] # 0 /\ t[1] % 10 = 0 THEN StripNum(<<t[1] \div 10, t[2], t[3] + 1>>)
    ELSE t

MkNum(t) == [k |-> "num", n |-> t[1], d |-> t[2], e |-> t[3]]

\* The finite number n/d * 10^e (d # 0) in canonical form.
NormNum(n, d, e) ==
    IF n = 0 THEN MkNum(<<0, 1, 0>>)
    ELSE MkNum(StripNum(StripDen(
             <<n \div (Sgn(d) * GCD(AbsInt(n), AbsInt(d))),
               d \div (Sgn(d) * GCD(AbsInt(n), AbsInt(d))),
               e>>)))

Sci(n, e) == NormNum(n, 1, e)
Num(n) == NormNum(n, 1, 0)
Rat(n, d) == NormNum(n, d, 0)

RECURSIVE NumDigits(_)
NumDigits(n) == IF n < 10 THEN 1 ELSE 1 + NumDigits(n \div 10)

\* Decimal order of magnitude of a nonzero finite number, within one.
Ord(a) == NumDigits(AbsInt(a.n)) - NumDigits(a.d) + a.e

(* Arithmetic on numbers: x and y are NaN, +/-Infinity or finite.          *)

\* x + y
NumAdd(x, y) ==
    IF x.k = "nan" \/ y.k = "nan" THEN NaN
    ELSE IF x.k = "inf" /\ y.k = "inf" THEN (IF x.sgn = y.sgn THEN x ELSE NaN)
    ELSE IF x.k = "inf" THEN x
    ELSE IF y.k = "inf" THEN y
    ELSE IF x.n = 0 THEN y
    ELSE IF y.n = 0 THEN x
    ELSE NormNum(x.n * Pow10(x.e - MinInt(x.e, y.e)) * y.d
                   + y.n * Pow10(y.e - MinInt(x.e, y.e)) * x.d,
                 x.d * y.d,
                 MinInt(x.e, y.e))

\* -x
NumNeg(x) ==
    IF x.k = "nan" THEN NaN
    ELSE IF x.k = "inf" THEN [x EXCEPT !.sgn = -x.sgn]
    ELSE [x EXCEPT !.n = -x.n]

\* the sign of a number that is not NaN
NumSgn(x) == IF x.k = "inf" THEN x.sgn ELSE Sgn(x.n)

\* x * y
NumMul(x, y) ==
    IF x.k = "nan" \/ y.k = "nan" THEN NaN
    ELSE IF NumSgn(x) * NumSgn(y) = 0
    THEN (IF x.k = "inf" \/ y.k = "inf" THEN NaN ELSE Num(0))
    ELSE IF x.k = "inf" \/ y.k = "inf"
    THEN [k |-> "inf", sgn |-> NumSgn(x) * NumSgn(y)]
    ELSE NormNum((x.n \div GCD(AbsInt(x.n), y.d)) * (y.n \div GCD(AbsInt(y.n), x.d)),
                 (x.d \div GCD(AbsInt(y.n), x.d)) * (y.d \div GCD(AbsInt(x.n), y.d)),
                 x.e + y.e)

\* x / y
NumDiv(x, y) ==
    IF x.k = "nan" \/ y.k = "nan" THEN NaN
    ELSE IF x.k = "inf" /\ y.k = "inf" THEN NaN
    ELSE IF x.k = "inf"
    THEN [k |-> "inf", sgn |-> IF y.n < 0 THEN -x.sgn ELSE x.sgn]
    ELSE IF y.k = "inf" THEN Num(0)
    ELSE IF y.n = 0
    THEN (IF x.n = 0 THEN NaN ELSE [k |-> "inf", sgn |-> Sgn(x.n)])
    ELSE NumMul(x, [k |-> "num", n |-> Sgn(y.n) * y.d, d |-> AbsInt(y.n), e |-> -y.e])

\* x < y
NumLess(x, y) ==
    IF x.k = "nan" \/ y.k = "nan" THEN FALSE
    ELSE IF x.k = "inf" /\ y.k = "inf" THEN x.sgn < y.sgn
    ELSE IF x.k = "inf" THEN x.sgn < 0
    ELSE IF y.k = "inf" THEN y.sgn > 0
    ELSE IF Sgn(x.n) # Sgn(y.n) THEN Sgn(x.n) < Sgn(y.n)
    ELSE IF x.n = 0 THEN FALSE
    ELSE IF Ord(y) - Ord(x) >= 2 THEN x.n > 0
    ELSE IF Ord(x) - Ord(y) >= 2 THEN x.n < 0
    ELSE x.n * Pow10(x.e - MinInt(x.e, y.e)) * y.d
            < y.n * Pow10(y.e - MinInt(x.e, y.e)) * x.d

\* x <= y
NumLessEq(x, y) == x.k # "nan" /\ y.k # "nan" /\ ~NumLess(y, x)

\* Math.min(x, y), Math.max(x, y)
NumMin(x, y) ==
    IF x.k = "nan" \/ y.k = "nan" THEN NaN ELSE IF NumLess(y, x) THEN y ELSE x
NumMax(x, y) ==
    IF x.k = "nan" \/ y.k = "nan" THEN NaN ELSE IF NumLess(x, y) THEN y ELSE x

\* Math.floor(x)
NumFloor(x) ==
    IF x.k # "num" THEN x
    ELSE IF x.d = 1 /\ x.e >= 0 THEN x
    ELSE IF x.e >= 0 THEN Num((x.n * Pow10(x.e)) \div x.d)
    ELSE Num(x.n \div (x.d * Pow10(-x.e)))

-----------------------------------------------------------------------------
(* Strings: String(number), Number(string), parseInt(string, 10)           *)

DigitChars == <<"0", "1", "2", "3", "4", "5", "6", "7", "8", "9">>
IsDigit(c) == \E i \in 1..10 : DigitChars[i] = c
DigitVal(c) == (CHOOSE i \in 1..10 : DigitChars[i] = c) - 1

RECURSIVE NatToChars(_)
NatToChars(n) ==
    IF n < 10 THEN <<DigitChars[n + 1]>>
    ELSE NatToChars(n \div 10) \o <<DigitChars[(n % 10) + 1]>>

RECURSIVE Zeros(_)
Zeros(p) == IF p <= 0 THEN <<>> ELSE <<"0">> \o Zeros(p - 1)

\* `${v}` for the values a template literal is given here: strings, NaN,
\* undefined, null and integers below 1e21 (printed without an exponent).
ToStr(v) ==
    CASE v.k = "str" -> v.s
      [] v.k = "nan" -> <<"N", "a", "N">>
      [] v.k = "undef" -> <<"u", "n", "d", "e", "f", "i", "n", "e", "d">>
      [] v.k = "null" -> <<"n", "u", "l", "l">>
      [] v.k = "num" ->
            (IF v.n < 0 THEN <<"-">> ELSE <<>>)
                \o NatToChars(AbsInt(v.n)) \o Zeros(v.e)

\* the value of the leading decimal digits of s, NaN when there are none
RECURSIVE ParseDigits(_, _, _)
ParseDigits(s, acc, seen) ==
    IF s # <<>> /\ IsDigit(Head(s))
    THEN ParseDigits(Tail(s), 10 * acc + DigitVal(Head(s)), TRUE)
    ELSE IF seen THEN Num(acc) ELSE NaN

\* parseInt(s, 10) of a string without leading white space: an optional
\* minus sign, then the leading decimal digits
ParseInt(s) ==
    IF s # <<>> /\ Head(s) = "-" THEN NumNeg(ParseDigits(Tail(s), 0, FALSE))
    ELSE ParseDigits(s, 0, FALSE)

\* the value of the decimal literal s (digits with at most one point and at
\* least one digit), NaN when s is not one
RECURSIVE ScanDecimal(_, _, _, _, _)
ScanDecimal(s, acc, scale, point, seen) ==
    IF s = <<>> THEN (IF seen THEN NormNum(acc, 1, scale) ELSE NaN)
    ELSE IF IsDigit(Head(s))
    THEN ScanDecimal(Tail(s), 10 * acc + DigitVal(Head(s)),
                     IF point THEN scale - 1 ELSE scale, point, TRUE)
    ELSE IF Head(s) = "." /\ ~point THEN ScanDecimal(Tail(s), acc, scale, TRUE, seen)
    ELSE NaN

\* Number(s) for a string without white space: "" is 0, a decimal literal
\* with an optional minus sign is its value, anything else is NaN.
StringToNumber(s) ==
    IF s = <<>> THEN Num(0)
    ELSE IF Head(s) = "-" THEN NumNeg(ScanDecimal(Tail(s), 0, 0, FALSE, FALSE))
    ELSE ScanDecimal(s, 0, 0, FALSE, FALSE)

-----------------------------------------------------------------------------
(* JavaScript operators                                                    *)

\* Number(v) / the implicit ToNumber of the arithmetic operators
ToNumber(v) ==
    CASE v.k = "null" -> Num(0)
      [] v.k = "undef" -> NaN
      [] v.k = "str" -> StringToNumber(v.s)
      [] v.k = "bool" -> IF v.b THEN Num(1) ELSE Num(0)
      [] OTHER -> v

\* a ?? b
Coalesce(a, b) == IF a = Null \/ a = Undef THEN b ELSE a

Falsy(v) ==
    \/ v = Null
    \/ v = Undef
    \/ v = NaN
    \/ (v.k = "num" /\ v.n = 0)
    \/ (v.k = "str" /\ v.s = <<>>)
    \/ (v.k = "bool" /\ ~v.b)

\* a || b
OrElse(a, b) == IF Falsy(a) THEN b ELSE a

\* a + b, a - b, a * b, a / b on operands that are not strings to concatenate
JsAdd(a, b) == NumAdd(ToNumber(a), ToNumber(b))
JsSub(a, b) == NumAdd(ToNumber(a), NumNeg(ToNumber(b)))
JsMul(a, b) == NumMul(ToNumber(a), ToNumber(b))
JsDiv(a, b) == NumDiv(ToNumber(a), ToNumber(b))

\* a < b, a > b, a <= b, a >= b on operands that are not both strings
JsLt(a, b) == NumLess(ToNumber(a), ToNumber(b))
JsGt(a, b) == NumLess(ToNumber(b), ToNumber(a))
JsLe(a, b) == NumLessEq(ToNumber(a), ToNumber(b))
JsGe(a, b) == NumLessEq(ToNumber(b), ToNumber(a))

IsNaN(v) == ToNumber(v).k = "nan"
IsFinite(v) == ToNumber(v).k = "num"

MathMin(a, b) == NumMin(ToNumber(a), ToNumber(b))
MathMax(a, b) == NumMax(ToNumber(a), ToNumber(b))
MathFloor(a) == NumFloor(ToNumber(a))

-----------------------------------------------------------------------------
(* TSV records.  A record is a TLA+ record over TsvFields; a property the  *)
(* JavaScript object does not have reads as undefined.                     *)

TsvFields ==
    {"energy_j", "work_units", "work_units_mode", "validated_work_units", "enst",
     "validated_steps", "timesteps", "cpu_core_seconds", "gpu_seconds",
     "cpu_util", "gpu_util", "window_duration_s", "power_w",
     "thermal_headroom_w", "grid_stress_index",
     "_policy_throttled", "_throttle_factor", "_migrate_flag"}

EmptyTsv == [f \in TsvFields |-> Undef]

Present(v) == v # Null /\ v # Undef

-----------------------------------------------------------------------------
(* Work units (src/src/enst_compute/index.js)                              *)

ASSUMED_CORE_UNITS == 100
ASSUMED_GPU_UNITS == 8
DEFAULT_WINDOW_DURATION_S == 300
DEFAULT_GPU_WEIGHT == 1

\* mutant: the GPU term is not weighted
computeWorkUnitsInfra_unweighted(t, gpuWeight) ==
    LET dur == OrElse(t.window_duration_s, Num(DEFAULT_WINDOW_DURATION_S))
        cpuCoreSeconds ==
            Coalesce(t.cpu_core_seconds,
                     JsMul(JsMul(OrElse(t.cpu_util, Num(0)), dur), Num(ASSUMED_CORE_UNITS)))
        gpuSeconds ==
            Coalesce(t.gpu_seconds,
                     JsMul(JsMul(OrElse(t.gpu_util, Num(0)), dur), Num(ASSUMED_GPU_UNITS)))
    IN  JsAdd(cpuCoreSeconds, gpuSeconds)

\* computeWorkUnitsInfra(tsv, gpuWeight = 1); an argument that is not passed
\* is undefined and takes the default.
computeWorkUnitsInfra(t, gpuWeight) ==
    LET w == IF gpuWeight = Undef THEN Num(DEFAULT_GPU_WEIGHT) ELSE gpuWeight
        dur == OrElse(t.window_duration_s, Num(DEFAULT_WINDOW_DURATION_S))
        cpuCoreSeconds ==
            Coalesce(t.cpu_core_seconds,
                     JsMul(JsMul(OrElse(t.cpu_util, Num(0)), dur), Num(ASSUMED_CORE_UNITS)))
        gpuSeconds ==
            Coalesce(t.gpu_seconds,
                     JsMul(JsMul(OrElse(t.gpu_util, Num(0)), dur), Num(ASSUMED_GPU_UNITS)))
    IN  JsAdd(cpuCoreSeconds, JsMul(gpuSeconds, w))

\* mutant: the timesteps tier is skipped
computeWorkUnitsDomain_noTimesteps(t) ==
    IF Present(t.validated_steps)
    THEN [value |-> t.validated_steps, mode |-> "domain"]
    ELSE [value |-> computeWorkUnitsInfra(t, Undef), mode |-> "infra_fallback"]

computeWorkUnitsDomain(t) ==
    IF Present(t.validated_steps)
    THEN [value |-> t.validated_steps, mode |-> "domain"]
    ELSE IF Present(t.timesteps)
    THEN [value |-> t.timesteps, mode |-> "domain"]
    ELSE [value |-> computeWorkUnitsInfra(t, Undef), mode |-> "infra_fallback"]

computeWorkUnits(t, mode, gpuWeight) ==
    IF mode = "domain" THEN computeWorkUnitsDomain(t)
    ELSE [value |-> computeWorkUnitsInfra(t, gpuWeight), mode |-> "infra"]

-----------------------------------------------------------------------------
(* ENST (src/src/enst_compute/index.js)                                    *)

\* mutant: a zero energy is divided by
computeEnst_zeroEnergy(t) ==
    LET energy == t.energy_j
        work == t.work_units
    IN  IF energy = Null \/ energy = Undef \/ JsLt(energy, Num(0)) THEN Null
        ELSE IF work = Null \/ work = Undef THEN Null
        ELSE JsDiv(work, energy)

computeEnst(t) ==
    LET energy == t.energy_j
        work == t.work_units
    IN  IF energy = Null \/ energy = Undef \/ JsLe(energy, Num(0)) THEN Null
        ELSE IF work = Null \/ work = Undef THEN Null
        ELSE JsDiv(work, energy)

\* record.work_units, record.work_units_mode and the legacy
\* record.validated_work_units of computeEnstStream, from wu = {value, mode}
WithWorkUnits(t, wu) ==
    [t EXCEPT !.work_units = wu.value,
              !.work_units_mode = Word(wu.mode),
              !.validated_work_units = IF @ = Null \/ @ = Undef THEN wu.value ELSE @]

\* record.enst = computeEnst(record)
WithEnst(r) == [r EXCEPT !.enst = computeEnst(r)]

\* mutant: enst is computed from the input, before work_units is written
computeEnstStream_staleEnst(t, workUnitsMode, gpuWeight) ==
    [WithWorkUnits(t, computeWorkUnits(t, workUnitsMode, gpuWeight)) EXCEPT
        !.enst = computeEnst(t)]


\* One iteration of computeEnstStream's loop: the record yielded for tsv t.
computeEnstStream(t, workUnitsMode, gpuWeight) ==
    WithEnst(WithWorkUnits(t, computeWorkUnits(t, workUnitsMode, gpuWeight)))

-----------------------------------------------------------------------------
(* Policy evaluation and throttling (src/src/cost/index.js)                *)

DEFAULT_POLICY ==
    [energy_cap_w |-> Null, thermal_cap_w |-> Null, grid_stress_cap |-> Null,
     throttle_factor |-> Rat(1, 2)]

Violation(type, actual, cap) == [type |-> type, actual |-> actual, cap |-> cap]

\* mutant: a grid-stress violation throttles too
evaluatePolicy_gridThrottles(record, policy) ==
    LET energyHit ==
            /\ policy.energy_cap_w # Null /\ record.power_w # Null
            /\ JsGt(record.power_w, policy.energy_cap_w)
        thermalHit ==
            /\ policy.thermal_cap_w # Null /\ record.thermal_headroom_w # Null
            /\ JsLt(record.thermal_headroom_w, policy.thermal_cap_w)
        gridHit ==
            /\ policy.grid_stress_cap # Null /\ record.grid_stress_index # Null
            /\ JsGt(record.grid_stress_index, policy.grid_stress_cap)
        f1 == IF energyHit THEN MathMin(Num(1), policy.throttle_factor) ELSE Num(1)
        f2 == IF thermalHit THEN MathMin(f1, policy.throttle_factor) ELSE f1
    IN  [throttle_applied |-> energyHit \/ thermalHit \/ gridHit,
         throttle_factor |-> f2,
         migrate_flag |-> gridHit,
         violations |->
            (IF energyHit
             THEN <<Violation("energy_cap", record.power_w, policy.energy_cap_w)>>
             ELSE <<>>)
            \o (IF thermalHit
                THEN <<Violation("thermal_cap", record.thermal_headroom_w,
                                 policy.thermal_cap_w)>>
                ELSE <<>>)
            \o (IF gridHit
                THEN <<Violation("grid_stress", record.grid_stress_index,
                                 policy.grid_stress_cap)>>
                ELSE <<>>)]

evaluatePolicy(record, policy) ==
    LET energyHit ==
            /\ policy.energy_cap_w # Null /\ record.power_w # Null
            /\ JsGt(record.power_w, policy.energy_cap_w)
        thermalHit ==
            /\ policy.thermal_cap_w # Null /\ record.thermal_headroom_w # Null
            /\ JsLt(record.thermal_headroom_w, policy.thermal_cap_w)
        gridHit ==
            /\ policy.grid_stress_cap # Null /\ record.grid_stress_index # Null
            /\ JsGt(record.grid_stress_index, policy.grid_stress_cap)
        f1 == IF energyHit THEN MathMin(Num(1), policy.throttle_factor) ELSE Num(1)
        f2 == IF thermalHit THEN MathMin(f1, policy.throttle_factor) ELSE f1
    IN  [throttle_applied |-> energyHit \/ thermalHit,
         throttle_factor |-> f2,
         migrate_flag |-> gridHit,
         violations |->
            (IF energyHit
             THEN <<Violation("energy_cap", record.power_w, policy.energy_cap_w)>>
             ELSE <<>>)
            \o (IF thermalHit
                THEN <<Violation("thermal_cap", record.thermal_headroom_w,
                                 policy.thermal_cap_w)>>
                ELSE <<>>)
            \o (IF gridHit
                THEN <<Violation("grid_stress", record.grid_stress_index,
                                 policy.grid_stress_cap)>>
                ELSE <<>>)]

\* x * factor when x is present, x otherwise
ScaleIfPresent(x, factor) == IF Present(x) THEN JsMul(x, factor) ELSE x

\* mutant: the energy is scaled by the square of the factor
Throttled_energySquared(record, factor) ==
    [record EXCEPT
       !.work_units = ScaleIfPresent(@, factor),
       !.validated_work_units = ScaleIfPresent(@, factor),
       !.cpu_core_seconds = ScaleIfPresent(@, factor),
       !.gpu_seconds = ScaleIfPresent(@, factor),
       !.energy_j = ScaleIfPresent(@, JsMul(factor, factor))]


\* the scaling of applyThrottle: work by factor, energy by 0.5 + 0.5 * factor
Throttled(record, factor) ==
    [record EXCEPT
       !.work_units = ScaleIfPresent(@, factor),
       !.validated_work_units = ScaleIfPresent(@, factor),
       !.cpu_core_seconds = ScaleIfPresent(@, factor),
       !.gpu_seconds = ScaleIfPresent(@, factor),
       !.energy_j = ScaleIfPresent(@, JsAdd(Rat(1, 2), JsMul(factor, Rat(1, 2))))]

\* the ENST recomputation of applyThrottle
Recomputed(t) ==
    IF JsGt(t.energy_j, Num(0)) /\ t.work_units # Null
    THEN [t EXCEPT !.enst = JsDiv(t.work_units, t.energy_j)]
    ELSE t

\* mutant: the untouched copy is marked too
applyThrottle_marksUntouched(record, evalResult) ==
    IF ~evalResult.throttle_applied
    THEN [record EXCEPT !._policy_throttled = Bool(FALSE)]
    ELSE [Recomputed(Throttled(record, evalResult.throttle_factor)) EXCEPT
            !._policy_throttled = Bool(TRUE),
            !._throttle_factor = evalResult.throttle_factor,
            !._migrate_flag = Bool(evalResult.migrate_flag)]


applyThrottle(record, evalResult) ==
    IF ~evalResult.throttle_applied THEN record
    ELSE [Recomputed(Throttled(record, evalResult.throttle_factor)) EXCEPT
            !._policy_throttled = Bool(TRUE),
            !._throttle_factor = evalResult.throttle_factor,
            !._migrate_flag = Bool(evalResult.migrate_flag)]

\* One iteration of applyPolicyStream's loop: the record yielded for `record`
\* (policy is the caller's object spread over DEFAULT_POLICY).
applyPolicyStream(record, policy) ==
    LET evalResult == evaluatePolicy(record, policy)
    IN  [rec |-> applyThrottle(record, evalResult), evaluation |-> evalResult]

-----------------------------------------------------------------------------
(* Cost conversion (src/src/cost/index.js)                                 *)

JOULES_PER_MWH == Sci(36, 8)
DEFAULT_PRICE_USD_PER_MWH == Num(50)
REFERENCE_WORK_UNITS == Sci(1, 9)

\* mutant: the energy guard is dropped
computeCostUsd_unguarded(energyJ, priceUsdPerMwh) ==
    JsMul(JsDiv(energyJ, JOULES_PER_MWH), priceUsdPerMwh)

computeCostUsd(energyJ, priceUsdPerMwh) ==
    IF energyJ = Null \/ energyJ = Undef \/ JsLe(energyJ, Num(0)) THEN Num(0)
    ELSE LET mwh == JsDiv(energyJ, JOULES_PER_MWH)
         IN  JsMul(mwh, priceUsdPerMwh)

computeEnergyForWork(workUnits, enst) ==
    IF enst = Null \/ enst = Undef \/ JsLe(enst, Num(0)) THEN Infinity
    ELSE JsDiv(workUnits, enst)

\* mutant: an unbounded energy is priced like any other
computeCostForWork_unguarded(workUnits, enst, priceUsdPerMwh) ==
    computeCostUsd(computeEnergyForWork(workUnits, enst), priceUsdPerMwh)

computeCostForWork(workUnits, enst, priceUsdPerMwh) ==
    LET energyJ == computeEnergyForWork(workUnits, enst)
    IN  IF ~IsFinite(energyJ) THEN Infinity
        ELSE computeCostUsd(energyJ, priceUsdPerMwh)

\* mutant: the difference is taken the other way round
computeDeltaCostPerWork_swapped(enstBaseline, enstPolicy, priceUsdPerMwh, referenceWorkUnits) ==
    LET ref == IF referenceWorkUnits = Undef THEN REFERENCE_WORK_UNITS
               ELSE referenceWorkUnits
        costBaseline == computeCostForWork(ref, enstBaseline, priceUsdPerMwh)
        costPolicy == computeCostForWork(ref, enstPolicy, priceUsdPerMwh)
    IN  IF ~IsFinite(costBaseline) \/ ~IsFinite(costPolicy) THEN Null
        ELSE JsSub(costBaseline, costPolicy)

\* computeDeltaCostPerWork(enstBaseline, enstPolicy, priceUsdPerMwh,
\*                         referenceWorkUnits = REFERENCE_WORK_UNITS)
computeDeltaCostPerWork(enstBaseline, enstPolicy, priceUsdPerMwh, referenceWorkUnits) ==
    LET ref == IF referenceWorkUnits = Undef THEN REFERENCE_WORK_UNITS
               ELSE referenceWorkUnits
        costBaseline == computeCostForWork(ref, enstBaseline, priceUsdPerMwh)
        costPolicy == computeCostForWork(ref, enstPolicy, priceUsdPerMwh)
    IN  IF ~IsFinite(costBaseline) \/ ~IsFinite(costPolicy) THEN Null
        ELSE JsSub(costPolicy, costBaseline)

-----------------------------------------------------------------------------
(* Maps: a JavaScript Map is the sequence of its entries in insertion      *)
(* order; set() on an existing key replaces the value in place.            *)

MapHas(m, key) == \E i \in DOMAIN m : m[i].key = key
MapIndex(m, key) == CHOOSE i \in DOMAIN m : m[i].key = key
MapGet(m, key) == m[MapIndex(m, key)].val
MapSet(m, key, val) ==
    IF MapHas(m, key) THEN [m EXCEPT ![MapIndex(m, key)].val = val]
    ELSE Append(m, [key |-> key, val |-> val])

-----------------------------------------------------------------------------
(* Window keys (src/src/enst_compute/index.js, src/src/tsv_normalize)      *)

DEFAULT_WINDOW_SIZE_US == Sci(3, 8)
US_PER_SECOND == Sci(1, 6)

WindowStart(ts, windowSizeUs) ==
    JsMul(MathFloor(JsDiv(ts, windowSizeUs)), windowSizeUs)

\* `${siteId}:${windowStart}`
getWindowKey(ts, siteId, windowSizeUs) ==
    ToStr(siteId) \o <<":">> \o ToStr(WindowStart(ts, windowSizeUs))

normalizeTimestamp(ts) ==
    IF JsLt(ts, Sci(1, 10)) THEN JsMul(ts, Sci(1, 6))
    ELSE IF JsLt(ts, Sci(1, 13)) THEN JsMul(ts, Sci(1, 3))
    ELSE ts

-----------------------------------------------------------------------------
(* PowerAggregator (src/src/enst_compute/index.js)                         *)

PowerFields ==
    {"ts", "timestamp", "time", "t", "site_id", "machine_id", "node_id",
     "power_w", "power", "watts", "watt", "power_watts", "pdu_power"}

EmptyPowerRecord == [f \in PowerFields |-> Undef]

\* the Map with the window of `key` created when it has none
PowerWindowAt(windows, key, windowStart, siteId) ==
    IF MapHas(windows, key) THEN windows
    ELSE MapSet(windows, key,
                [ts_start |-> windowStart,
                 ts_end |-> JsAdd(windowStart, DEFAULT_WINDOW_SIZE_US),
                 site_id |-> siteId,
                 power_samples |-> <<>>,
                 last_ts |-> windowStart])

\* the push of {ts, power} on the window of `key`
PushPowerSample(windows, key, ts, powerW) ==
    IF powerW # Null /\ ~IsNaN(powerW)
    THEN MapSet(windows, key,
                [MapGet(windows, key) EXCEPT
                   !.power_samples = Append(@, [ts |-> ts, power |-> ToNumber(powerW)]),
                   !.last_ts = MathMax(@, ts)])
    ELSE windows

\* addPowerRecord once ts and siteId are extracted
AddPowerSample(windows, ts, siteId, powerW) ==
    PushPowerSample(
        PowerWindowAt(windows, getWindowKey(ts, siteId, DEFAULT_WINDOW_SIZE_US),
                      WindowStart(ts, DEFAULT_WINDOW_SIZE_US), siteId),
        getWindowKey(ts, siteId, DEFAULT_WINDOW_SIZE_US), ts, powerW)

\* addPowerRecord on the Map `windows`: the Map afterwards
addPowerRecord(windows, record) ==
    AddPowerSample(
        windows,
        normalizeTimestamp(
            Coalesce(record.ts, Coalesce(record.timestamp,
                Coalesce(record.time, Coalesce(record.t, Num(0)))))),
        Coalesce(record.site_id, Coalesce(record.machine_id,
            Coalesce(record.node_id, Str(<<"u", "n", "k", "n", "o", "w", "n">>)))),
        Coalesce(record.power_w, Coalesce(record.power,
            Coalesce(record.watts, Coalesce(record.watt,
                Coalesce(record.power_watts, Coalesce(record.pdu_power, Null)))))))

\* samples.sort((a, b) => a.ts - b.ts): Array.prototype.sort is stable
RECURSIVE InsertByTs(_, _)
InsertByTs(sorted, x) ==
    IF sorted = <<>> THEN <<x>>
    ELSE IF JsLt(x.ts, sorted[Len(sorted)].ts)
    THEN Append(InsertByTs(SubSeq(sorted, 1, Len(sorted) - 1), x), sorted[Len(sorted)])
    ELSE Append(sorted, x)

RECURSIVE SortByTs(_)
SortByTs(samples) ==
    IF samples = <<>> THEN <<>>
    ELSE InsertByTs(SortByTs(SubSeq(samples, 1, Len(samples) - 1)), samples[Len(samples)])

\* the integration loop of computeEnergy over samples[1..upto]
RECURSIVE Trapezoids(_, _)
Trapezoids(samples, upto) ==
    IF upto < 2 THEN Num(0)
    ELSE LET dt == JsDiv(JsSub(samples[upto].ts, samples[upto - 1].ts), US_PER_SECOND)
             avgPower == JsDiv(JsAdd(samples[upto].power, samples[upto - 1].power), Num(2))
         IN  JsAdd(Trapezoids(samples, upto - 1), JsMul(avgPower, dt))

\* mutant: the samples are integrated in arrival order
computeEnergy_unsorted(samples) ==
    IF Len(samples) < 2
    THEN [energy |-> IF Len(samples) = 1
                     THEN JsMul(samples[1].power,
                                JsDiv(DEFAULT_WINDOW_SIZE_US, US_PER_SECOND))
                     ELSE Num(0),
          samples |-> samples]
    ELSE [energy |-> Trapezoids(samples, Len(samples)), samples |-> samples]

\* computeEnergy(samples): the energy, and the array as the in-place sort
\* leaves it
computeEnergy(samples) ==
    IF Len(samples) < 2
    THEN [energy |-> IF Len(samples) = 1
                     THEN JsMul(samples[1].power,
                                JsDiv(DEFAULT_WINDOW_SIZE_US, US_PER_SECOND))
                     ELSE Num(0),
          samples |-> samples]
    ELSE LET sorted == SortByTs(samples)
         IN  [energy |-> Trapezoids(sorted, Len(sorted)), samples |-> sorted]

RECURSIVE SumPower(_)
SumPower(samples) ==
    IF samples = <<>> THEN Num(0)
    ELSE JsAdd(SumPower(SubSeq(samples, 1, Len(samples) - 1)),
               samples[Len(samples)].power)

\* the record PowerAggregator.emit yields for one window
PowerEmitRecord(window) ==
    [ts |-> window.ts_start,
     ts_start |-> window.ts_start,
     ts_end |-> window.ts_end,
     site_id |-> window.site_id,
     power_w |-> IF Len(window.power_samples) > 0
                 THEN JsDiv(SumPower(window.power_samples),
                            Num(Len(window.power_samples)))
                 ELSE Num(0),
     energy_j_window |-> computeEnergy(window.power_samples).energy,
     sample_count |-> Num(Len(window.power_samples))]

\* PowerAggregator.emit consumed to its end: the records yielded, and the Map
\* with every window's samples as computeEnergy left them
emitPower(windows) ==
    [recs |-> [i \in DOMAIN windows |-> PowerEmitRecord(windows[i].val)],
     windows |-> [i \in DOMAIN windows |->
                    [windows[i] EXCEPT
                       !.val.power_samples = computeEnergy(@).samples]]]

-----------------------------------------------------------------------------
(* UsageAggregator (src/src/enst_compute/index.js)                         *)

\* average_usage_cpus / average_usage_memory are record.average_usage?.cpus
\* and record.average_usage?.memory
UsageFields ==
    {"start_time", "time", "ts", "end_time", "machine_id", "site_id",
     "average_usage_cpus", "average_usage_memory", "cpu_util", "assigned_memory",
     "mem_util", "gpu_util", "type", "event_type"}

EmptyUsageRecord == [f \in UsageFields |-> Undef]

PushNumber(samples, v) == IF v # Null THEN Append(samples, ToNumber(v)) ELSE samples

\* the Map with the window of `key` created when it has none
UsageWindowAt(windows, key, windowStart, siteId) ==
    IF MapHas(windows, key) THEN windows
    ELSE MapSet(windows, key,
                [ts_start |-> windowStart,
                 ts_end |-> JsAdd(windowStart, DEFAULT_WINDOW_SIZE_US),
                 site_id |-> siteId,
                 cpu_samples |-> <<>>,
                 gpu_samples |-> <<>>,
                 mem_samples |-> <<>>,
                 job_count |-> Num(0),
                 resource_seconds |-> Num(0)])

\* the updates of addUsageRecord on the window of `key`
PushUsageSample(windows, key, record, ts, cpuUtil) ==
    MapSet(windows, key,
           [MapGet(windows, key) EXCEPT
              !.cpu_samples = PushNumber(@, cpuUtil),
              !.mem_samples =
                  PushNumber(@, Coalesce(record.average_usage_memory,
                                         Coalesce(record.mem_util, Null))),
              !.gpu_samples = PushNumber(@, Coalesce(record.gpu_util, Null)),
              !.job_count = IF record.type # Undef \/ record.event_type # Undef
                            THEN JsAdd(@, Num(1)) ELSE @,
              !.resource_seconds =
                  JsAdd(@, JsMul(OrElse(cpuUtil, Num(0)),
                                 JsDiv(JsSub(OrElse(record.end_time,
                                                    JsAdd(ts, US_PER_SECOND)), ts),
                                       US_PER_SECOND)))])

\* addUsageRecord once ts and siteId are extracted
AddUsageSample(windows, record, ts, siteId) ==
    PushUsageSample(
        UsageWindowAt(windows, getWindowKey(ts, siteId, DEFAULT_WINDOW_SIZE_US),
                      WindowStart(ts, DEFAULT_WINDOW_SIZE_US), siteId),
        getWindowKey(ts, siteId, DEFAULT_WINDOW_SIZE_US), record, ts,
        Coalesce(record.average_usage_cpus,
                 Coalesce(record.cpu_util, Coalesce(record.assigned_memory, Null))))

\* addUsageRecord on the Map `windows`: the Map afterwards
addUsageRecord(windows, record) ==
    AddUsageSample(
        windows, record,
        OrElse(record.start_time, OrElse(record.time, OrElse(record.ts, Num(0)))),
        OrElse(record.machine_id,
               OrElse(record.site_id, Str(<<"u", "n", "k", "n", "o", "w", "n">>))))

RECURSIVE SumSeq(_)
SumSeq(samples) ==
    IF samples = <<>> THEN Num(0)
    ELSE JsAdd(SumSeq(SubSeq(samples, 1, Len(samples) - 1)), samples[Len(samples)])

\* the mean of a sample list, `empty` when it has no sample
MeanOr(samples, empty) ==
    IF Len(samples) > 0 THEN JsDiv(SumSeq(samples), Num(Len(samples))) ELSE empty

Clamp01(x) == MathMin(Num(1), MathMax(Num(0), x))

\* the record UsageAggregator.emit yields for one window
UsageEmitRecord(window) ==
    LET cpuUtil == MeanOr(window.cpu_samples, Num(0))
        gpuUtil == MeanOr(window.gpu_samples, Null)
        memUtil == MeanOr(window.mem_samples, Null)
    IN  [ts |-> window.ts_start,
         ts_start |-> window.ts_start,
         ts_end |-> window.ts_end,
         site_id |-> window.site_id,
         cpu_util |-> Clamp01(cpuUtil),
         gpu_util |-> IF gpuUtil # Null THEN Clamp01(gpuUtil) ELSE Null,
         mem_util |-> IF memUtil # Null THEN Clamp01(memUtil) ELSE Null,
         job_queue_depth |-> window.job_count,
         resource_seconds_window |-> window.resource_seconds]

\* UsageAggregator.emit consumed to its end
emitUsage(windows) == [i \in DOMAIN windows |-> UsageEmitRecord(windows[i].val)]

-----------------------------------------------------------------------------
(* TsvNormalizer (src/src/tsv_normalize/index.js)                          *)

\* s.split(':'): the pieces of s between the colons
RECURSIVE SplitColon(_, _)
SplitColon(s, piece) ==
    IF s = <<>> THEN <<piece>>
    ELSE IF Head(s) = ":" THEN <<piece>> \o SplitColon(Tail(s), <<>>)
    ELSE SplitColon(Tail(s), Append(piece, Head(s)))

\* the keys of a Map, in insertion order
MapKeys(m) == [i \in DOMAIN m |-> m[i].key]

\* new Set([...a, ...b]): a's elements, then those of b that are not in a,
\* once each (the keys of one Map are distinct)
KeyUnion(a, b) ==
    a \o SelectSeq(b, LAMBDA key : \A i \in DOMAIN a : a[i] # key)

\* addUsageRecord / addPowerRecord: Map.set under the record's window key
normalizerAdd(byKey, record) ==
    MapSet(byKey,
           getWindowKey(OrElse(record.ts_start, record.ts), record.site_id,
                        DEFAULT_WINDOW_SIZE_US),
           record)

\* TsvNormalizer.emit consumed to its end.  A key the Map lacks reads as {},
\* every property of which is undefined.
normalizerEmit(usageByKey, powerByKey) ==
    LET allKeys == KeyUnion(MapKeys(usageByKey), MapKeys(powerByKey))
        Yield(key) ==
            LET U(f) == IF MapHas(usageByKey, key)
                        THEN MapGet(usageByKey, key)[f] ELSE Undef
                P(f) == IF MapHas(powerByKey, key)
                        THEN MapGet(powerByKey, key)[f] ELSE Undef
                parts == SplitColon(key, <<>>)
                siteId == Str(parts[1])
                tsStart == IF Len(parts) >= 2 THEN ParseInt(parts[2]) ELSE NaN
            IN  [ts_start |-> OrElse(U("ts_start"), OrElse(P("ts_start"), tsStart)),
                 ts_end |-> OrElse(U("ts_end"),
                                   OrElse(P("ts_end"),
                                          JsAdd(tsStart, DEFAULT_WINDOW_SIZE_US))),
                 site_id |-> siteId,
                 cpu_util |-> Coalesce(U("cpu_util"), Num(0)),
                 gpu_util |-> Coalesce(U("gpu_util"), Null),
                 mem_util |-> Coalesce(U("mem_util"), Null),
                 job_queue_depth |-> Coalesce(U("job_queue_depth"), Num(0)),
                 resource_seconds |-> Coalesce(U("resource_seconds_window"), Num(0)),
                 power_w |-> Coalesce(P("power_w"), Null),
                 energy_j |-> Coalesce(P("energy_j_window"), Null),
                 validated_work_units |-> Null,
                 throughput_ops |-> Null,
                 enst |-> Null,
                 window_duration_s |-> JsDiv(DEFAULT_WINDOW_SIZE_US, US_PER_SECOND)]
    IN  [i \in DOMAIN allKeys |-> Yield(allKeys[i])]

-----------------------------------------------------------------------------
(* EnstLeaderboard (src/src/enst_compute/index.js)                         *)

\* Number.prototype.toFixed(digits) below 1e21: the nearest multiple of
\* 10^-digits, the larger one on a tie, with exactly `digits` decimals
FixedDigits(m, digits) ==
    Zeros(digits + 1 - Len(NatToChars(m))) \o NatToChars(m)

WithPoint(chars, digits) ==
    IF digits = 0 THEN chars
    ELSE SubSeq(chars, 1, Len(chars) - digits) \o <<".">>
            \o SubSeq(chars, Len(chars) - digits + 1, Len(chars))

\* the integer a finite whole number stands for
IntOf(x) == x.n * Pow10(x.e)

ToFixedAbs(x, digits) ==
    WithPoint(FixedDigits(IntOf(NumFloor(NumAdd(NumMul(x, Sci(1, digits)), Rat(1, 2)))),
                          digits), digits)

ToFixed(x, digits) ==
    IF x.k = "nan" THEN <<"N", "a", "N">>
    ELSE IF x.k = "inf"
    THEN (IF x.sgn < 0 THEN <<"-">> ELSE <<>>) \o <<"I", "n", "f", "i", "n", "i", "t", "y">>
    ELSE IF x.n < 0 THEN <<"-">> \o ToFixedAbs(NumNeg(x), digits)
    ELSE ToFixedAbs(x, digits)

\* Array.prototype.join on strings
RECURSIVE Join(_, _)
Join(parts, sep) ==
    IF parts = <<>> THEN <<>>
    ELSE IF Len(parts) = 1 THEN parts[1]
    ELSE Join(SubSeq(parts, 1, Len(parts) - 1), sep) \o sep \o parts[Len(parts)]

\* resolvePrice (src/src/cost/index.js)
resolvePrice(record, defaultPrice) ==
    IF Present(record.price_usd_per_mwh)
    THEN [price |-> record.price_usd_per_mwh, defaulted |-> FALSE]
    ELSE [price |-> defaultPrice, defaulted |-> TRUE]

\* buildNotes (src/src/cost/index.js); dataSource is a string or null
buildNotes(priceDefaulted, dataSource) ==
    Join((IF priceDefaulted
          THEN <<<<"m", "i", "s", "s", "i", "n", "g", "_", "p", "r", "i", "c", "e", "_",
                   "d", "e", "f", "a", "u", "l", "t", "e", "d">>>>
          ELSE <<>>)
         \o (IF Falsy(dataSource) THEN <<>>
             ELSE <<<<"d", "a", "t", "a", "_", "s", "o", "u", "r", "c", "e", "=">>
                        \o ToStr(dataSource)>>),
         <<";">>)

DefaultCluster == Str(<<"d", "e", "f", "a", "u", "l", "t">>)

\* `${siteId}:${clusterId}`
LeaderboardKey(siteId, clusterId) == ToStr(siteId) \o <<":">> \o ToStr(clusterId)

\* the key addRecord files the record under
RecordKey(record) ==
    LeaderboardKey(record.site_id, OrElse(record.cluster_id, DefaultCluster))

\* the site object addRecord creates for a key it has not seen
NewSite(record, workUnitsMode) ==
    [site_id |-> record.site_id,
     cluster_id |-> OrElse(record.cluster_id, DefaultCluster),
     total_energy_j |-> Num(0),
     total_work_units |-> Num(0),
     window_count |-> 0,
     windows |-> <<>>,
     pue_samples |-> <<>>,
     thermal_headroom_samples |-> <<>>,
     grid_stress_samples |-> <<>>,
     price_samples |-> <<>>,
     price_defaulted_count |-> 0,
     data_sources |-> <<>>,
     work_units_mode |-> OrElse(record.work_units_mode, Word(workUnitsMode))]

SiteOf(sites, record, workUnitsMode) ==
    IF MapHas(sites, RecordKey(record)) THEN MapGet(sites, RecordKey(record))
    ELSE NewSite(record, workUnitsMode)

WindowOf(record) ==
    [ts_start |-> record.ts_start, ts_end |-> record.ts_end,
     energy_j |-> record.energy_j, work_units |-> record.work_units,
     enst |-> record.enst, power_w |-> record.power_w]

PushIfPresent(samples, v) == IF Present(v) THEN Append(samples, v) ELSE samples

\* Set.add
SetAdd(elems, v) ==
    IF \E i \in DOMAIN elems : elems[i] = v THEN elems ELSE Append(elems, v)

\* the body of addRecord after the site is looked up
Accumulate(site, record, price) ==
    [site EXCEPT
        !.window_count = @ + 1,
        !.total_energy_j = IF Present(record.energy_j) THEN JsAdd(@, record.energy_j) ELSE @,
        !.total_work_units =
            IF Present(record.work_units) THEN JsAdd(@, record.work_units) ELSE @,
        !.windows = Append(@, WindowOf(record)),
        !.pue_samples = PushIfPresent(@, record.pue),
        !.thermal_headroom_samples = PushIfPresent(@, record.thermal_headroom_w),
        !.grid_stress_samples = PushIfPresent(@, record.grid_stress_index),
        !.price_samples =
            Append(@, [price |-> price.price, energy |-> OrElse(record.energy_j, Num(0))]),
        !.price_defaulted_count = IF price.defaulted THEN @ + 1 ELSE @,
        !.data_sources = IF Falsy(record.data_source) THEN @ ELSE SetAdd(@, record.data_source)]

addRecord(sites, record, workUnitsMode, defaultPrice) ==
    MapSet(sites, RecordKey(record),
           Accumulate(SiteOf(sites, record, workUnitsMode), record,
                      resolvePrice(record, defaultPrice)))

\* site.windows.sort((a, b) => a.ts_start - b.ts_start): stable, in place
RECURSIVE InsertByStart(_, _)
InsertByStart(sorted, x) ==
    IF sorted = <<>> THEN <<x>>
    ELSE IF JsLt(JsSub(x.ts_start, sorted[Len(sorted)].ts_start), Num(0))
    THEN Append(InsertByStart(SubSeq(sorted, 1, Len(sorted) - 1), x), sorted[Len(sorted)])
    ELSE Append(sorted, x)

\* mutant: the windows are reversed in place instead of sorted
RECURSIVE SortByStart_reversed(_)
SortByStart_reversed(windows) ==
    IF windows = <<>> THEN <<>>
    ELSE <<windows[Len(windows)]>> \o SortByStart_reversed(SubSeq(windows, 1, Len(windows) - 1))

RECURSIVE SortByStart(_)
SortByStart(windows) ==
    IF windows = <<>> THEN <<>>
    ELSE InsertByStart(SortByStart(SubSeq(windows, 1, Len(windows) - 1)),
                       windows[Len(windows)])

\* the two sums of the weighted average price loop
RECURSIVE TotalPriceEnergy(_)
TotalPriceEnergy(samples) ==
    IF samples = <<>> THEN Num(0)
    ELSE JsAdd(TotalPriceEnergy(SubSeq(samples, 1, Len(samples) - 1)),
               samples[Len(samples)].energy)

RECURSIVE WeightedPriceSum(_)
WeightedPriceSum(samples) ==
    IF samples = <<>> THEN Num(0)
    ELSE JsAdd(WeightedPriceSum(SubSeq(samples, 1, Len(samples) - 1)),
               JsMul(samples[Len(samples)].price, samples[Len(samples)].energy))

AvgPrice(samples, defaultPrice) ==
    IF JsGt(TotalPriceEnergy(samples), Num(0))
    THEN JsDiv(WeightedPriceSum(samples), TotalPriceEnergy(samples))
    ELSE defaultPrice

SiteEnst(site) ==
    IF JsGt(site.total_energy_j, Num(0))
    THEN JsDiv(site.total_work_units, site.total_energy_j)
    ELSE Num(0)

\* the entry getLeaderboard pushes for a site whose windows are sorted
EntryOf(site, sortedWindows, avgPrice) ==
    [window_start |-> IF Len(sortedWindows) > 0 THEN sortedWindows[1].ts_start ELSE Num(0),
     window_end |-> IF Len(sortedWindows) > 0
                    THEN sortedWindows[Len(sortedWindows)].ts_end ELSE Num(0),
     site_id |-> site.site_id,
     cluster_id |-> site.cluster_id,
     energy_j |-> site.total_energy_j,
     work_units |-> site.total_work_units,
     work_units_mode |-> site.work_units_mode,
     enst_units_per_j |-> SiteEnst(site),
     pue |-> MeanOr(site.pue_samples, Null),
     thermal_headroom_w |-> MeanOr(site.thermal_headroom_samples, Null),
     grid_stress_index |-> MeanOr(site.grid_stress_samples, Null),
     price_usd_per_mwh |-> avgPrice,
     cost_usd |-> computeCostUsd(site.total_energy_j, avgPrice),
     notes |-> buildNotes(site.price_defaulted_count > 0,
                          IF Len(site.data_sources) > 0
                          THEN Str(Join([i \in DOMAIN site.data_sources |->
                                            ToStr(site.data_sources[i])], <<",">>))
                          ELSE Null)]

\* mutant: the entries are sorted ascending
RECURSIVE InsertByEnst_ascending(_, _)
InsertByEnst_ascending(sorted, x) ==
    IF sorted = <<>> THEN <<x>>
    ELSE IF JsLt(JsSub(x.enst_units_per_j, sorted[Len(sorted)].enst_units_per_j), Num(0))
    THEN Append(InsertByEnst_ascending(SubSeq(sorted, 1, Len(sorted) - 1), x),
                sorted[Len(sorted)])
    ELSE Append(sorted, x)

\* entries.sort((a, b) => b.enst_units_per_j - a.enst_units_per_j): stable
RECURSIVE InsertByEnst(_, _)
InsertByEnst(sorted, x) ==
    IF sorted = <<>> THEN <<x>>
    ELSE IF JsLt(JsSub(sorted[Len(sorted)].enst_units_per_j, x.enst_units_per_j), Num(0))
    THEN Append(InsertByEnst(SubSeq(sorted, 1, Len(sorted) - 1), x), sorted[Len(sorted)])
    ELSE Append(sorted, x)

RECURSIVE SortByEnst(_)
SortByEnst(entries) ==
    IF entries = <<>> THEN <<>>
    ELSE InsertByEnst(SortByEnst(SubSeq(entries, 1, Len(entries) - 1)),
                      entries[Len(entries)])

\* the sites Map after getLeaderboard: every site's windows sorted in place
SitesAfterRead(sites) ==
    [i \in DOMAIN sites |->
        [key |-> sites[i].key,
         val |-> [sites[i].val EXCEPT !.windows = SortByStart(@)]]]

getLeaderboard(sites, defaultPrice) ==
    SortByEnst([i \in DOMAIN sites |->
                  EntryOf(sites[i].val, SortByStart(sites[i].val.windows),
                          AvgPrice(sites[i].val.price_samples, defaultPrice))])

CsvHeader ==
    <<<<"window_start">>, <<"window_end">>, <<"site_id">>, <<"cluster_id">>, <<"energy_j">>,
      <<"work_units">>, <<"work_units_mode">>, <<"enst_units_per_j">>, <<"pue">>,
      <<"thermal_headroom_w">>, <<"grid_stress_index">>, <<"price_usd_per_mwh">>,
      <<"cost_usd">>, <<"notes">>>>

\* one line of toCsv, as the list of its fields before join(',')
CsvLine(entry) ==
    <<ToStr(entry.window_start), ToStr(entry.window_end),
      ToStr(entry.site_id), ToStr(entry.cluster_id),
      ToFixed(entry.energy_j, 2), ToFixed(entry.work_units, 2),
      <<entry.work_units_mode.w>>,
      ToFixed(entry.enst_units_per_j, 6),
      IF entry.pue # Null THEN ToFixed(entry.pue, 3) ELSE <<>>,
      IF entry.thermal_headroom_w # Null THEN ToFixed(entry.thermal_headroom_w, 2) ELSE <<>>,
      IF entry.grid_stress_index # Null THEN ToFixed(entry.grid_stress_index, 4) ELSE <<>>,
      ToFixed(entry.price_usd_per_mwh, 2), ToFixed(entry.cost_usd, 2),
      entry.notes>>

\* toCsv of a leaderboard: the header, then the lines
toCsv(leaderboard) ==
    Join(<<Join(CsvHeader, <<",">>)>>
            \o [i \in DOMAIN leaderboard |-> Join(CsvLine(leaderboard[i]), <<",">>)],
         <<"\n">>)

-----------------------------------------------------------------------------
(* Policy impact (src/src/cost/index.js).  A record applyPolicyStream has  *)
(* yielded is [rec, evaluation]: the processed record and the evaluation   *)
(* stored in its _policy_evaluation property.                              *)

\* records.reduce((sum, r) => sum + (r[field] || 0), 0)
RECURSIVE SumOrZero(_, _)
SumOrZero(records, field) ==
    IF records = <<>> THEN Num(0)
    ELSE JsAdd(SumOrZero(SubSeq(records, 1, Len(records) - 1), field),
               OrElse(records[Len(records)][field], Num(0)))

\* the weightedPriceSum of computeWeightedAveragePrice
RECURSIVE WeightedEnergyPrice(_, _)
WeightedEnergyPrice(records, defaultPrice) ==
    IF records = <<>> THEN Num(0)
    ELSE JsAdd(WeightedEnergyPrice(SubSeq(records, 1, Len(records) - 1), defaultPrice),
               JsMul(OrElse(records[Len(records)].energy_j, Num(0)),
                     resolvePrice(records[Len(records)], defaultPrice).price))

\* the avgPrice of computeWeightedAveragePrice
computeWeightedAveragePrice(records, defaultPrice) ==
    IF JsGt(SumOrZero(records, "energy_j"), Num(0))
    THEN JsDiv(WeightedEnergyPrice(records, defaultPrice), SumOrZero(records, "energy_j"))
    ELSE defaultPrice

RatioOrZero(work, energy) == IF JsGt(energy, Num(0)) THEN JsDiv(work, energy) ELSE Num(0)

\* the `baseline` / `policy` object of the summary
Metrics(records, avgPrice) ==
    [enst_units_per_j |-> RatioOrZero(SumOrZero(records, "work_units"),
                                      SumOrZero(records, "energy_j")),
     energy_j |-> SumOrZero(records, "energy_j"),
     work_units |-> SumOrZero(records, "work_units"),
     price_usd_per_mwh |-> avgPrice,
     cost_usd |-> computeCostUsd(SumOrZero(records, "energy_j"), avgPrice),
     record_count |-> Len(records)]

\* base > 0 ? ((value - base) / base) * 100 : 0
Pct(value, base) ==
    IF JsGt(base, Num(0)) THEN JsMul(JsDiv(JsSub(value, base), base), Num(100)) ELSE Num(0)

Delta(b, p) ==
    [enst_units_per_j |-> JsSub(p.enst_units_per_j, b.enst_units_per_j),
     enst_pct |-> Pct(p.enst_units_per_j, b.enst_units_per_j),
     energy_j |-> JsSub(p.energy_j, b.energy_j),
     energy_j_pct |-> Pct(p.energy_j, b.energy_j),
     work_units |-> JsSub(p.work_units, b.work_units),
     work_units_pct |-> Pct(p.work_units, b.work_units),
     cost_usd |-> JsSub(p.cost_usd, b.cost_usd),
     cost_usd_pct |-> Pct(p.cost_usd, b.cost_usd)]

DeltaCostPer1e9(baselineCost, policyCost) ==
    IF IsFinite(baselineCost) /\ IsFinite(policyCost) THEN JsSub(policyCost, baselineCost)
    ELSE Null

CostPer1e9(m) == computeCostForWork(REFERENCE_WORK_UNITS, m.enst_units_per_j, m.price_usd_per_mwh)

\* policyRecords.filter(r => r[flag]).length
FlagCount(policyRecords, flag) ==
    Cardinality({i \in DOMAIN policyRecords : ~Falsy(policyRecords[i].rec[flag])})

MigrateCount(policyRecords) == FlagCount(policyRecords, "_migrate_flag")

\* the tally of the violations of one type over the _policy_evaluation of
\* the records
RECURSIVE ViolationTally(_, _)
ViolationTally(policyRecords, type) ==
    IF policyRecords = <<>> THEN 0
    ELSE ViolationTally(SubSeq(policyRecords, 1, Len(policyRecords) - 1), type)
            + Cardinality({v \in DOMAIN policyRecords[Len(policyRecords)].evaluation.violations :
                  policyRecords[Len(policyRecords)].evaluation.violations[v].type = type})

Summary(b, p, policyRecords) ==
    [baseline |-> b,
     policy |-> p,
     delta |-> Delta(b, p),
     delta_cost_usd_per_1e9_work_units |-> DeltaCostPer1e9(CostPer1e9(b), CostPer1e9(p)),
     violations |-> [energy_cap |-> ViolationTally(policyRecords, "energy_cap"),
                     thermal_cap |-> ViolationTally(policyRecords, "thermal_cap"),
                     grid_stress |-> ViolationTally(policyRecords, "grid_stress")],
     throttled_windows |-> FlagCount(policyRecords, "_policy_throttled"),
     migrate_flagged_windows |-> MigrateCount(policyRecords)]

RecsOf(policyRecords) == [i \in DOMAIN policyRecords |-> policyRecords[i].rec]

computePolicyImpact(baselineRecords, policyRecords, defaultPrice) ==
    Summary(Metrics(baselineRecords,
                    computeWeightedAveragePrice(baselineRecords, defaultPrice)),
            Metrics(RecsOf(policyRecords),
                    computeWeightedAveragePrice(RecsOf(policyRecords), defaultPrice)),
            policyRecords)

\* { ...DEFAULT_POLICY, ...policy }
MergedPolicy(policy) ==
    [f \in DOMAIN DEFAULT_POLICY |->
        IF f \in DOMAIN policy THEN policy[f] ELSE DEFAULT_POLICY[f]]

-----------------------------------------------------------------------------
(* Function harness: Init draws the arguments, each action is one call.    *)

NoCall == [fn |-> "none"]

\* values the aggregator and normalizer variables keep while the function
\* harnesses run
\* the aggregator harness runs two instances of each aggregator
Instances == {1, 2}
NoEmit == [emitted |-> FALSE, reused |-> FALSE]

AggIdle ==
    /\ power = [i \in Instances |-> <<>>]
    /\ powerFed = [i \in Instances |-> <<>>]
    /\ powerOut = [i \in Instances |-> NoEmit]
    /\ usage = [i \in Instances |-> <<>>]
    /\ usageFed = [i \in Instances |-> <<>>]
    /\ usageOut = [i \in Instances |-> NoEmit]
NormIdle ==
    /\ norm = [usageByKey |-> <<>>, powerByKey |-> <<>>]
    /\ normOut = [emitted |-> FALSE]
BoardIdle ==
    /\ board = <<>>
    /\ boardOut = <<>>

WorkUnitsModes == {"infra", "domain"}
GpuWeights == {Undef, Num(1), Num(2), Rat(1, 2)}

WorkTsvs ==
    {[EmptyTsv EXCEPT !.validated_steps = vs, !.timesteps = st,
                      !.cpu_core_seconds = ccs, !.gpu_seconds = gs,
                      !.cpu_util = cu, !.gpu_util = gu,
                      !.window_duration_s = wd] :
        vs \in {Undef, Null, Num(0), Num(3)},
        st \in {Undef, Null, Num(5)},
        ccs \in {Undef, Num(0), Num(7)},
        gs \in {Null, Num(0), Num(2)},
        cu \in {Undef, Rat(1, 2)},
        gu \in {Null, Rat(1, 4)},
        wd \in {Undef, Num(0), Num(10)}}

InitWork ==
    /\ tsv \in WorkTsvs
    /\ out = NoCall
    /\ cost = <<>> /\ AggIdle /\ NormIdle /\ BoardIdle

CallComputeWorkUnitsInfra(w) ==
    /\ out' = [fn |-> "computeWorkUnitsInfra", gpuWeight |-> w,
               ret |-> computeWorkUnitsInfra(tsv, w)]
    /\ UNCHANGED <<tsv, cost, power, powerFed, powerOut, usage, usageFed, usageOut,
                   norm, normOut, board, boardOut>>

CallComputeWorkUnitsDomain ==
    /\ out' = [fn |-> "computeWorkUnitsDomain", ret |-> computeWorkUnitsDomain(tsv)]
    /\ UNCHANGED <<tsv, cost, power, powerFed, powerOut, usage, usageFed, usageOut,
                   norm, normOut, board, boardOut>>

CallComputeWorkUnits(mode, w) ==
    /\ out' = [fn |-> "computeWorkUnits", mode |-> mode, gpuWeight |-> w,
               ret |-> computeWorkUnits(tsv, mode, w)]
    /\ UNCHANGED <<tsv, cost, power, powerFed, powerOut, usage, usageFed, usageOut,
                   norm, normOut, board, boardOut>>

NextWork ==
    \/ \E w \in GpuWeights : CallComputeWorkUnitsInfra(w)
    \/ CallComputeWorkUnitsDomain
    \/ \E mode \in WorkUnitsModes, w \in GpuWeights : CallComputeWorkUnits(mode, w)

SpecWork == InitWork /\ [][NextWork]_vars

EnstTsvs ==
    {[EmptyTsv EXCEPT !.energy_j = ej, !.work_units = wu,
                      !.validated_steps = vs, !.cpu_core_seconds = ccs,
                      !.gpu_seconds = gs, !.power_w = pw,
                      !.window_duration_s = Num(DEFAULT_WINDOW_DURATION_S)] :
        ej \in {Undef, Null, Num(-2), Num(0), Num(4)},
        wu \in {Undef, Null, Num(-3), Num(0), Num(6)},
        vs \in {Undef, Num(-1), Num(3)},
        ccs \in {Undef, Num(2)},
        gs \in {Undef, Num(1)},
        pw \in {Null, Num(500), Num(1500)}}

Policies ==
    {[DEFAULT_POLICY EXCEPT !.energy_cap_w = cap, !.throttle_factor = f] :
        cap \in {Null, Num(1000)},
        f \in {Num(0), Rat(1, 2), Num(1)}}

InitEnst ==
    /\ tsv \in EnstTsvs
    /\ out = NoCall
    /\ cost = <<>> /\ AggIdle /\ NormIdle /\ BoardIdle

CallComputeEnst ==
    /\ out' = [fn |-> "computeEnst", ret |-> computeEnst(tsv)]
    /\ UNCHANGED <<tsv, cost, power, powerFed, powerOut, usage, usageFed, usageOut,
                   norm, normOut, board, boardOut>>

\* computeEnstStream over the one-record stream <<tsv>>
CallComputeEnstStream(mode, w) ==
    /\ out' = [fn |-> "computeEnstStream", mode |-> mode, gpuWeight |-> w,
               rec |-> computeEnstStream(tsv, mode, w)]
    /\ UNCHANGED <<tsv, cost, power, powerFed, powerOut, usage, usageFed, usageOut,
                   norm, normOut, board, boardOut>>

\* applyPolicyStream over the record computeEnstStream yielded
CallApplyPolicyStream(policy) ==
    /\ out.fn = "computeEnstStream"
    /\ LET y == applyPolicyStream(out.rec, policy)
       IN  out' = [fn |-> "applyPolicyStream", src |-> out.rec, policy |-> policy,
                   rec |-> y.rec, evaluation |-> y.evaluation]
    /\ UNCHANGED <<tsv, cost, power, powerFed, powerOut, usage, usageFed, usageOut,
                   norm, normOut, board, boardOut>>

NextEnst ==
    \/ CallComputeEnst
    \/ \E mode \in WorkUnitsModes, w \in GpuWeights : CallComputeEnstStream(mode, w)
    \/ \E policy \in Policies : CallApplyPolicyStream(policy)

SpecEnst == InitEnst /\ [][NextEnst]_vars

\* records and policies for evaluatePolicy and applyThrottle, the records with
\* the enst that computeEnstStream gave them: power 500 and
\* 1500 around the cap 1000, headroom 50 and 200 around the cap 100, grid
\* stress 0.2 and 0.9 around the cap 0.5
PolicyTsvs ==
    {WithEnst([EmptyTsv EXCEPT !.energy_j = ej, !.work_units = wu,
                               !.validated_work_units = wu,
                               !.cpu_core_seconds = ccs, !.power_w = pw,
                               !.thermal_headroom_w = th, !.grid_stress_index = gs]) :
        ej \in {Undef, Num(4)},
        wu \in {Null, Num(6)},
        ccs \in {Undef, Num(2)},
        pw \in {Null, Num(500), Num(1500)},
        th \in {Null, Num(50), Num(200)},
        gs \in {Null, Rat(1, 5), Rat(9, 10)}}

CapPolicies ==
    {[energy_cap_w |-> ec, thermal_cap_w |-> tc, grid_stress_cap |-> gc,
      throttle_factor |-> f] :
        ec \in {Null, Num(1000)},
        tc \in {Null, Num(100)},
        gc \in {Null, Rat(1, 2)},
        f \in {Num(-1), Num(0), Rat(1, 2), Num(1), Num(2)}}

InitPolicy ==
    /\ tsv \in PolicyTsvs
    /\ out = NoCall
    /\ cost = <<>> /\ AggIdle /\ NormIdle /\ BoardIdle

CallEvaluatePolicy(policy) ==
    /\ out' = [fn |-> "evaluatePolicy", policy |-> policy,
               ret |-> evaluatePolicy(tsv, policy)]
    /\ UNCHANGED <<tsv, cost, power, powerFed, powerOut, usage, usageFed, usageOut,
                   norm, normOut, board, boardOut>>

\* applyThrottle on the evaluation of the record
CallApplyThrottle(policy) ==
    /\ out' = [fn |-> "applyThrottle", policy |-> policy,
               evaluation |-> evaluatePolicy(tsv, policy),
               ret |-> applyThrottle(tsv, evaluatePolicy(tsv, policy))]
    /\ UNCHANGED <<tsv, cost, power, powerFed, powerOut, usage, usageFed, usageOut,
                   norm, normOut, board, boardOut>>

NextPolicy ==
    \/ \E policy \in CapPolicies : CallEvaluatePolicy(policy)
    \/ \E policy \in CapPolicies : CallApplyThrottle(policy)

SpecPolicy == InitPolicy /\ [][NextPolicy]_vars

CostArgs ==
    [energyJ : {Undef, Null, Num(-5), Num(0), Sci(36, 8), Sci(18, 8), Num(7)},
     price : {Undef, Num(-10), Num(0), Num(50), Num(120), Infinity},
     enstBaseline : {Null, NaN, Num(0), Rat(1, 10), Rat(1, 2)},
     enstPolicy : {Undef, Num(-1), Rat(1, 10), Rat(1, 2), Infinity}]

InitCost ==
    /\ cost \in CostArgs
    /\ out = NoCall
    /\ tsv = EmptyTsv /\ AggIdle /\ NormIdle /\ BoardIdle

CallComputeCostUsd ==
    /\ out' = [fn |-> "computeCostUsd", ret |-> computeCostUsd(cost.energyJ, cost.price)]
    /\ UNCHANGED <<tsv, cost, power, powerFed, powerOut, usage, usageFed, usageOut,
                   norm, normOut, board, boardOut>>

CallComputeEnergyForWork ==
    /\ out' = [fn |-> "computeEnergyForWork",
               ret |-> computeEnergyForWork(REFERENCE_WORK_UNITS, cost.enstPolicy)]
    /\ UNCHANGED <<tsv, cost, power, powerFed, powerOut, usage, usageFed, usageOut,
                   norm, normOut, board, boardOut>>

CallComputeCostForWork ==
    /\ out' = [fn |-> "computeCostForWork",
               ret |-> computeCostForWork(REFERENCE_WORK_UNITS, cost.enstPolicy,
                                          cost.price)]
    /\ UNCHANGED <<tsv, cost, power, powerFed, powerOut, usage, usageFed, usageOut,
                   norm, normOut, board, boardOut>>

CallComputeDeltaCostPerWork ==
    /\ out' = [fn |-> "computeDeltaCostPerWork",
               ret |-> computeDeltaCostPerWork(cost.enstBaseline, cost.enstPolicy,
                                               cost.price, Undef)]
    /\ UNCHANGED <<tsv, cost, power, powerFed, powerOut, usage, usageFed, usageOut,
                   norm, normOut, board, boardOut>>

NextCost ==
    \/ CallComputeCostUsd
    \/ CallComputeEnergyForWork
    \/ CallComputeCostForWork
    \/ CallComputeDeltaCostPerWork

SpecCost == InitCost /\ [][NextCost]_vars

-----------------------------------------------------------------------------
(* Aggregator harness.  One aggregator is fed any records; in the pair     *)
(* specifications a second instance is fed the records the first was fed,  *)
(* in any order.  The output remembered for an instance is that of an      *)
(* emit() called since its last add; `reused` tells that the instance had  *)
(* already emitted before that add.                                        *)

MaxPowerSamples == 3
MaxUsageSamples == 3

SiteA == Str(<<"a">>)
SiteB == Str(<<"b">>)

\* timestamps are seconds; 0, 100, 250 fall in window 0 and 400 in window 300 s
PowerRecords ==
    {[EmptyPowerRecord EXCEPT !.ts = Num(100), !.site_id = SiteA, !.power_w = Num(2)],
     [EmptyPowerRecord EXCEPT !.ts = Num(100), !.site_id = SiteA, !.power_w = Num(4)],
     [EmptyPowerRecord EXCEPT !.ts = Num(0), !.site_id = SiteA, !.power_w = Num(10)],
     [EmptyPowerRecord EXCEPT !.timestamp = Num(250), !.machine_id = SiteA,
                              !.watts = Num(6)],
     [EmptyPowerRecord EXCEPT !.ts = Num(400), !.site_id = SiteB,
                              !.power = Str(<<"n", "/", "a">>)],
     [EmptyPowerRecord EXCEPT !.ts = Num(20), !.site_id = SiteB, !.power_w = Num(8)]}

\* timestamps are microseconds
UsageRecords ==
    {[EmptyUsageRecord EXCEPT !.ts = Sci(5, 6), !.site_id = SiteA, !.cpu_util = Rat(1, 2)],
     [EmptyUsageRecord EXCEPT !.start_time = Sci(5, 6), !.end_time = Sci(7, 6),
                              !.machine_id = SiteA, !.average_usage_cpus = Rat(3, 2),
                              !.average_usage_memory = Rat(1, 4)],
     [EmptyUsageRecord EXCEPT !.ts = Sci(9, 6), !.site_id = SiteA, !.cpu_util = Num(-1),
                              !.gpu_util = Num(2)],
     [EmptyUsageRecord EXCEPT !.ts = Sci(4, 8), !.site_id = SiteB,
                              !.cpu_util = Str(<<"n", "/", "a">>)],
     [EmptyUsageRecord EXCEPT !.ts = Sci(4, 8), !.site_id = SiteB,
                              !.type = Word("SCHEDULE")],
     [EmptyUsageRecord EXCEPT !.time = Sci(6, 6), !.site_id = SiteB,
                              !.cpu_util = Rat(1, 4), !.mem_util = Rat(3, 4)]}

Count(seq, x) == Cardinality({i \in DOMAIN seq : seq[i] = x})
SameMultiset(s1, s2) ==
    /\ Len(s1) = Len(s2)
    /\ \A i \in DOMAIN s1 : Count(s1, s1[i]) = Count(s2, s1[i])

\* instance 1 takes any record; instance 2 only one that instance 1 was fed
\* more often than instance 2
MayFeed(fed, i, record) ==
    i = 1 \/ Count(fed[2], record) < Count(fed[1], record)

InitAgg ==
    /\ AggIdle
    /\ out = NoCall
    /\ tsv = EmptyTsv /\ cost = <<>> /\ NormIdle /\ BoardIdle

AddPowerRecord(i, record) ==
    /\ Len(powerFed[i]) < MaxPowerSamples
    /\ MayFeed(powerFed, i, record)
    /\ power' = [power EXCEPT ![i] = addPowerRecord(@, record)]
    /\ powerFed' = [powerFed EXCEPT ![i] = Append(@, record)]
    /\ powerOut' = [powerOut EXCEPT ![i] =
                        [emitted |-> FALSE, reused |-> @.emitted \/ @.reused]]
    /\ UNCHANGED <<tsv, out, cost, usage, usageFed, usageOut, norm, normOut, board, boardOut>>

EmitPower(i) ==
    /\ LET e == emitPower(power[i])
       IN  /\ power' = [power EXCEPT ![i] = e.windows]
           /\ powerOut' = [powerOut EXCEPT ![i] =
                             [emitted |-> TRUE, reused |-> @.reused, recs |-> e.recs]]
    /\ UNCHANGED <<tsv, out, cost, powerFed, usage, usageFed, usageOut, norm, normOut, board, boardOut>>

\* one aggregator
NextPower ==
    \/ \E record \in PowerRecords : AddPowerRecord(1, record)
    \/ EmitPower(1)

SpecPower == InitAgg /\ [][NextPower]_vars

\* two aggregators fed the same records
NextPowerPair ==
    \/ \E i \in Instances, record \in PowerRecords : AddPowerRecord(i, record)
    \/ \E i \in Instances : EmitPower(i)

SpecPowerPair == InitAgg /\ [][NextPowerPair]_vars

AddUsageRecord(i, record) ==
    /\ Len(usageFed[i]) < MaxUsageSamples
    /\ MayFeed(usageFed, i, record)
    /\ usage' = [usage EXCEPT ![i] = addUsageRecord(@, record)]
    /\ usageFed' = [usageFed EXCEPT ![i] = Append(@, record)]
    /\ usageOut' = [usageOut EXCEPT ![i] =
                        [emitted |-> FALSE, reused |-> @.emitted \/ @.reused]]
    /\ UNCHANGED <<tsv, out, cost, power, powerFed, powerOut, norm, normOut, board, boardOut>>

EmitUsage(i) ==
    /\ usageOut' = [usageOut EXCEPT ![i] =
                        [emitted |-> TRUE, reused |-> @.reused,
                         recs |-> emitUsage(usage[i])]]
    /\ UNCHANGED <<tsv, out, cost, power, powerFed, powerOut, usage, usageFed,
                   norm, normOut, board, boardOut>>

\* one aggregator
NextUsage ==
    \/ \E record \in UsageRecords : AddUsageRecord(1, record)
    \/ EmitUsage(1)

SpecUsage == InitAgg /\ [][NextUsage]_vars

\* two aggregators fed the same records
NextUsagePair ==
    \/ \E i \in Instances, record \in UsageRecords : AddUsageRecord(i, record)
    \/ \E i \in Instances : EmitUsage(i)

SpecUsagePair == InitAgg /\ [][NextUsagePair]_vars

-----------------------------------------------------------------------------
(* Ingest harness: ingestGoogleClusterdata and ingestPowerdata              *)
(* (src/src/enst_compute/index.js) read records into a fresh aggregator    *)
(* and yield what it emits; `out` holds the function and its siteId option. *)

SiteOverride == Str(<<"x">>)

InitIngest ==
    /\ AggIdle
    /\ out \in {[fn |-> fn, siteId |-> siteId] :
                  fn \in {"ingestGoogleClusterdata", "ingestPowerdata"},
                  siteId \in {Null, SiteOverride}}
    /\ tsv = EmptyTsv /\ cost = <<>> /\ NormIdle /\ BoardIdle

\* if (siteId) { record.site_id = siteId; }
WithSiteId(record, siteId) ==
    IF Falsy(siteId) THEN record ELSE [record EXCEPT !.site_id = siteId]

\* one iteration of a reader loop of ingestGoogleClusterdata
IngestUsageRecord(record) ==
    /\ out.fn = "ingestGoogleClusterdata"
    /\ ~usageOut[1].emitted
    /\ Len(usageFed[1]) < MaxUsageSamples
    /\ usage' = [usage EXCEPT ![1] = addUsageRecord(@, WithSiteId(record, out.siteId))]
    /\ usageFed' = [usageFed EXCEPT ![1] = Append(@, record)]
    /\ UNCHANGED <<tsv, out, cost, power, powerFed, powerOut, usageOut, norm, normOut,
                   board, boardOut>>

\* the emit loop of ingestGoogleClusterdata
IngestUsageEmit ==
    /\ out.fn = "ingestGoogleClusterdata"
    /\ ~usageOut[1].emitted
    /\ usageOut' = [usageOut EXCEPT ![1] =
                        [emitted |-> TRUE, reused |-> FALSE, recs |-> emitUsage(usage[1])]]
    /\ UNCHANGED <<tsv, out, cost, power, powerFed, powerOut, usage, usageFed,
                   norm, normOut, board, boardOut>>

\* one iteration of the reader loop of ingestPowerdata
IngestPowerRecord(record) ==
    /\ out.fn = "ingestPowerdata"
    /\ ~powerOut[1].emitted
    /\ Len(powerFed[1]) < MaxPowerSamples
    /\ power' = [power EXCEPT ![1] = addPowerRecord(@, WithSiteId(record, out.siteId))]
    /\ powerFed' = [powerFed EXCEPT ![1] = Append(@, record)]
    /\ UNCHANGED <<tsv, out, cost, powerOut, usage, usageFed, usageOut, norm, normOut,
                   board, boardOut>>

\* the emit loop of ingestPowerdata
IngestPowerEmit ==
    /\ out.fn = "ingestPowerdata"
    /\ ~powerOut[1].emitted
    /\ power' = [power EXCEPT ![1] = emitPower(power[1]).windows]
    /\ powerOut' = [powerOut EXCEPT ![1] =
                        [emitted |-> TRUE, reused |-> FALSE,
                         recs |-> emitPower(power[1]).recs]]
    /\ UNCHANGED <<tsv, out, cost, powerFed, usage, usageFed, usageOut, norm, normOut,
                   board, boardOut>>

NextIngest ==
    \/ \E record \in UsageRecords : IngestUsageRecord(record)
    \/ IngestUsageEmit
    \/ \E record \in PowerRecords : IngestPowerRecord(record)
    \/ IngestPowerEmit

SpecIngest == InitIngest /\ [][NextIngest]_vars

-----------------------------------------------------------------------------
(* Normalizer harness.  The normalizer is fed records that the aggregators *)
(* emit, as the export pipeline does (src/cli/tsv-export.js); the output   *)
(* remembered is that of an emit() called since the last add.              *)

MaxNormRecords == 3

SiteColon == Str(<<"d", ":", "1">>)

\* what a UsageAggregator emits after one record
UsageWindowOf(record) == emitUsage(addUsageRecord(<<>>, record))[1]
\* what a PowerAggregator emits after one record
PowerWindowOf(record) == emitPower(addPowerRecord(<<>>, record)).recs[1]

\* usage timestamps are microseconds: windows 0 and 300 s
NormUsageRecords ==
    {UsageWindowOf([EmptyUsageRecord EXCEPT !.ts = ts, !.site_id = site,
                                            !.cpu_util = Rat(1, 2)]) :
        ts \in {Sci(5, 6), Sci(4, 8)}, site \in {SiteA, SiteColon}}
    \cup {UsageWindowOf([EmptyUsageRecord EXCEPT !.ts = Sci(5, 6), !.site_id = SiteA,
                                                 !.cpu_util = Rat(1, 4),
                                                 !.gpu_util = Rat(3, 4)])}

\* power timestamps are seconds: windows 0 and 300 s
NormPowerRecords ==
    {PowerWindowOf([EmptyPowerRecord EXCEPT !.ts = ts, !.site_id = site,
                                            !.power_w = Num(10)]) :
        ts \in {Num(5), Num(400)}, site \in {SiteA, SiteColon}}

InitTsv ==
    /\ norm = [usageByKey |-> <<>>, powerByKey |-> <<>>]
    /\ normOut = [emitted |-> FALSE]
    /\ out = NoCall
    /\ tsv = EmptyTsv /\ cost = <<>> /\ AggIdle /\ BoardIdle

NormRoom == Len(norm.usageByKey) + Len(norm.powerByKey) < MaxNormRecords

NormAddUsageRecord(record) ==
    /\ NormRoom
    /\ norm' = [norm EXCEPT !.usageByKey = normalizerAdd(@, record)]
    /\ normOut' = [emitted |-> FALSE]
    /\ UNCHANGED <<tsv, out, cost, power, powerFed, powerOut,
                   usage, usageFed, usageOut, board, boardOut>>

NormAddPowerRecord(record) ==
    /\ NormRoom
    /\ norm' = [norm EXCEPT !.powerByKey = normalizerAdd(@, record)]
    /\ normOut' = [emitted |-> FALSE]
    /\ UNCHANGED <<tsv, out, cost, power, powerFed, powerOut,
                   usage, usageFed, usageOut, board, boardOut>>

NormEmit ==
    /\ normOut' = [emitted |-> TRUE,
                   recs |-> normalizerEmit(norm.usageByKey, norm.powerByKey)]
    /\ UNCHANGED <<tsv, out, cost, power, powerFed, powerOut,
                   usage, usageFed, usageOut, norm, board, boardOut>>

NextTsv ==
    \/ \E record \in NormUsageRecords : NormAddUsageRecord(record)
    \/ \E record \in NormPowerRecords : NormAddPowerRecord(record)
    \/ NormEmit

SpecTsv == InitTsv /\ [][NextTsv]_vars

-----------------------------------------------------------------------------
(* Export harness: the ingest branch of the tsv-export CLI                  *)
(* (src/cli/tsv-export.js).  One usage sample and one power sample that     *)
(* carry the timestamp and site id held in `out` go through their           *)
(* aggregators; what the aggregators emit is added to the normalizer.      *)

\* 100 s, 400 s and 1.7e9 s; 1.7e12 ms; 1.7e15 us; 4e8 (400 s written in us)
ExportTimestamps ==
    {Num(100), Num(400), Sci(17, 8), Sci(17, 11), Sci(17, 14), Sci(4, 8)}

InitExport ==
    /\ AggIdle /\ NormIdle
    /\ out \in {[fn |-> "export", ts |-> ts, site_id |-> site] :
                  ts \in ExportTimestamps, site \in {SiteA, SiteB}}
    /\ tsv = EmptyTsv /\ cost = <<>> /\ BoardIdle

\* normalizer.addUsageRecord / addPowerRecord for every record of a list
RECURSIVE normalizerAddAll(_, _)
normalizerAddAll(byKey, records) ==
    IF records = <<>> THEN byKey
    ELSE normalizerAdd(normalizerAddAll(byKey, SubSeq(records, 1, Len(records) - 1)),
                       records[Len(records)])

\* the usage sample is read into the UsageAggregator
ExportAddUsage ==
    /\ usageFed[1] = <<>>
    /\ usage' = [usage EXCEPT ![1] =
                    addUsageRecord(@, [EmptyUsageRecord EXCEPT !.ts = out.ts,
                                                               !.site_id = out.site_id,
                                                               !.cpu_util = Rat(1, 2)])]
    /\ usageFed' = [usageFed EXCEPT ![1] =
                    <<[EmptyUsageRecord EXCEPT !.ts = out.ts, !.site_id = out.site_id,
                                               !.cpu_util = Rat(1, 2)]>>]
    /\ UNCHANGED <<tsv, out, cost, power, powerFed, powerOut, usageOut, norm, normOut,
                   board, boardOut>>

\* the power sample is read into the PowerAggregator
ExportAddPower ==
    /\ powerFed[1] = <<>>
    /\ power' = [power EXCEPT ![1] =
                    addPowerRecord(@, [EmptyPowerRecord EXCEPT !.ts = out.ts,
                                                               !.site_id = out.site_id,
                                                               !.power_w = Num(8)])]
    /\ powerFed' = [powerFed EXCEPT ![1] =
                    <<[EmptyPowerRecord EXCEPT !.ts = out.ts, !.site_id = out.site_id,
                                               !.power_w = Num(8)]>>]
    /\ UNCHANGED <<tsv, out, cost, powerOut, usage, usageFed, usageOut, norm, normOut,
                   board, boardOut>>

\* for await (const record of ingestGoogleClusterdata(...)) normalizer.addUsageRecord(record)
ExportNormalizeUsage ==
    /\ usageFed[1] # <<>> /\ ~usageOut[1].emitted /\ ~normOut.emitted
    /\ usageOut' = [usageOut EXCEPT ![1] =
                        [emitted |-> TRUE, reused |-> FALSE, recs |-> emitUsage(usage[1])]]
    /\ norm' = [norm EXCEPT !.usageByKey = normalizerAddAll(@, emitUsage(usage[1]))]
    /\ UNCHANGED <<tsv, out, cost, power, powerFed, powerOut, usage, usageFed, normOut,
                   board, boardOut>>

\* for await (const record of ingestPowerdata(...)) normalizer.addPowerRecord(record)
ExportNormalizePower ==
    /\ powerFed[1] # <<>> /\ ~powerOut[1].emitted /\ ~normOut.emitted
    /\ power' = [power EXCEPT ![1] = emitPower(power[1]).windows]
    /\ powerOut' = [powerOut EXCEPT ![1] =
                        [emitted |-> TRUE, reused |-> FALSE,
                         recs |-> emitPower(power[1]).recs]]
    /\ norm' = [norm EXCEPT !.powerByKey = normalizerAddAll(@, emitPower(power[1]).recs)]
    /\ UNCHANGED <<tsv, out, cost, powerFed, usage, usageFed, usageOut, normOut,
                   board, boardOut>>

\* for (const record of normalizer.emit())
ExportEmit ==
    /\ ~normOut.emitted
    /\ normOut' = [emitted |-> TRUE,
                   recs |-> normalizerEmit(norm.usageByKey, norm.powerByKey)]
    /\ UNCHANGED <<tsv, out, cost, power, powerFed, powerOut, usage, usageFed, usageOut,
                   norm, board, boardOut>>

NextExport ==
    \/ ExportAddUsage
    \/ ExportAddPower
    \/ ExportNormalizeUsage
    \/ ExportNormalizePower
    \/ ExportEmit

SpecExport == InitExport /\ [][NextExport]_vars

-----------------------------------------------------------------------------
(* Leaderboard harness: the loop of the enst CLI (src/cli/enst.js), which  *)
(* pipes each input record through computeEnstStream into addRecord, then  *)
(* reads the leaderboard.  In the pair specification a second run is fed   *)
(* the input of the first, record by record.                               *)

MaxBoardRecords == 2

SiteColonB == Str(<<"a", ":", "b">>)
SitePlain == Str(<<"a">>)
ClusterC == Str(<<"c">>)
ClusterColonC == Str(<<"b", ":", "c">>)

\* input records: three (site_id, cluster_id) pairs, two of which give the
\* same key; windows at 0 and 300 s; 1000 J with 100 or 500 core-seconds,
\* or no energy
BoardRecords ==
    {[f \in TsvFields \cup {"site_id", "cluster_id", "ts_start", "ts_end", "pue",
                            "price_usd_per_mwh", "data_source"} |->
        CASE f = "site_id" -> id[1]
          [] f = "cluster_id" -> id[2]
          [] f = "ts_start" -> Num(ts)
          [] f = "ts_end" -> Num(ts + 300)
          [] f = "energy_j" -> load[1]
          [] f = "cpu_core_seconds" -> load[2]
          [] OTHER -> Undef] :
        id \in {<<SiteColonB, ClusterC>>, <<SitePlain, ClusterColonC>>, <<SitePlain, Undef>>},
        ts \in {0, 300},
        load \in {<<Num(1000), Num(100)>>, <<Num(1000), Num(500)>>, <<Null, Num(100)>>}}

NoRead == [fed |-> <<>>, reads |-> 0, prev |-> <<>>, last |-> <<>>, csv |-> <<>>]

\* new EnstLeaderboard({workUnitsMode, defaultPriceUsdPerMwh})
NewBoard(workUnitsMode, defaultPrice) ==
    [sites |-> <<>>,
     workUnitsMode |-> IF workUnitsMode = "" THEN "infra" ELSE workUnitsMode,
     defaultPriceUsdPerMwh |-> OrElse(defaultPrice, DEFAULT_PRICE_USD_PER_MWH)]

InitBoard ==
    /\ \E mode \in WorkUnitsModes :
          board = [i \in Instances |-> NewBoard(mode, DEFAULT_PRICE_USD_PER_MWH)]
    /\ boardOut = [i \in Instances |-> NoRead]
    /\ out = NoCall
    /\ tsv = EmptyTsv /\ cost = <<>> /\ AggIdle /\ NormIdle

\* the second run reads the input of the first
NextInput(i, record) ==
    \/ i = 1
    \/ /\ Len(boardOut[2].fed) < Len(boardOut[1].fed)
       /\ record = boardOut[1].fed[Len(boardOut[2].fed) + 1]

\* one iteration of the CLI loop: computeEnstStream yields, addRecord takes
BoardAddRecord(i, record) ==
    /\ Len(boardOut[i].fed) < MaxBoardRecords
    /\ NextInput(i, record)
    /\ board' = [board EXCEPT ![i].sites =
                    addRecord(@, computeEnstStream(record, board[i].workUnitsMode, Num(1)),
                              board[i].workUnitsMode, board[i].defaultPriceUsdPerMwh)]
    /\ boardOut' = [boardOut EXCEPT ![i] = [NoRead EXCEPT !.fed = Append(boardOut[i].fed, record)]]
    /\ UNCHANGED <<tsv, out, cost, power, powerFed, powerOut, usage, usageFed, usageOut,
                   norm, normOut>>

BoardGetLeaderboard(i) ==
    /\ boardOut[i].reads < 2
    /\ board' = [board EXCEPT ![i].sites = SitesAfterRead(@)]
    /\ boardOut' = [boardOut EXCEPT
                      ![i].reads = @ + 1,
                      ![i].prev = boardOut[i].last,
                      ![i].last = getLeaderboard(board[i].sites,
                                                 board[i].defaultPriceUsdPerMwh)]
    /\ UNCHANGED <<tsv, out, cost, power, powerFed, powerOut, usage, usageFed, usageOut,
                   norm, normOut>>

\* toCsv reads the leaderboard itself
BoardToCsv(i) ==
    /\ boardOut[i].reads < 2
    /\ board' = [board EXCEPT ![i].sites = SitesAfterRead(@)]
    /\ boardOut' = [boardOut EXCEPT
                      ![i].reads = @ + 1,
                      ![i].prev = boardOut[i].last,
                      ![i].last = getLeaderboard(board[i].sites,
                                                 board[i].defaultPriceUsdPerMwh),
                      ![i].csv = toCsv(getLeaderboard(board[i].sites,
                                                      board[i].defaultPriceUsdPerMwh))]
    /\ UNCHANGED <<tsv, out, cost, power, powerFed, powerOut, usage, usageFed, usageOut,
                   norm, normOut>>

\* one run
NextBoard ==
    \/ \E record \in BoardRecords : BoardAddRecord(1, record)
    \/ BoardGetLeaderboard(1)
    \/ BoardToCsv(1)

SpecBoard == InitBoard /\ [][NextBoard]_vars

\* two runs of the CLI over the same input, one after the other: a run
\* adds its whole input, writes the CSV (writeLeaderboardCsv calls toCsv),
\* then reads the leaderboard again for the summary (computeSummaryStats)
FirstRunAdd(record) ==
    /\ boardOut[1].reads = 0
    /\ BoardAddRecord(1, record)

SecondRunAdd(record) ==
    /\ boardOut[1].reads = 2
    /\ boardOut[2].reads = 0
    /\ BoardAddRecord(2, record)

InputConsumed(i) ==
    \/ i = 1
    \/ boardOut[1].reads = 2 /\ Len(boardOut[2].fed) = Len(boardOut[1].fed)

RunWritesCsv(i) ==
    /\ boardOut[i].reads = 0
    /\ InputConsumed(i)
    /\ BoardToCsv(i)

RunSummary(i) ==
    /\ boardOut[i].reads = 1
    /\ BoardGetLeaderboard(i)

NextBoardPair ==
    \/ \E record \in BoardRecords : FirstRunAdd(record)
    \/ \E record \in BoardRecords : SecondRunAdd(record)
    \/ \E i \in Instances : RunWritesCsv(i)
    \/ \E i \in Instances : RunSummary(i)

SpecBoardPair == InitBoard /\ [][NextBoardPair]_vars

-----------------------------------------------------------------------------
(* CLI harness: main() of the enst CLI (src/cli/enst.js) and of the replay *)
(* CLI (src/cli/replay.js), one action per stage and per loop iteration.   *)
(* `out` is the state of the run.                                          *)

MaxCliRecords == 2

\* values of --work-units-mode (the option's default is 'infra')
ModeArgs == {"infra", "domain", "gpu", ""}

\* input records of one site: 1000 J, 100 core-seconds, power 500 or 1500 W,
\* grid stress 0.2 or 0.9
CliRecords ==
    {[f \in TsvFields \cup {"site_id", "cluster_id", "ts_start", "ts_end", "pue",
                            "price_usd_per_mwh", "data_source"} |->
        CASE f = "site_id" -> SitePlain
          [] f = "ts_start" -> Num(0)
          [] f = "ts_end" -> Num(300)
          [] f = "energy_j" -> Num(1000)
          [] f = "cpu_core_seconds" -> Num(100)
          [] f = "power_w" -> pw
          [] f = "grid_stress_index" -> gs
          [] OTHER -> Undef] :
        pw \in {Num(500), Num(1500)}, gs \in {Rat(1, 5), Rat(9, 10)}}

RECURSIVE SeqsUpTo(_, _)
SeqsUpTo(S, n) ==
    IF n = 0 THEN {<<>>}
    ELSE SeqsUpTo(S, n - 1)
            \cup {Append(q, x) : q \in {r \in SeqsUpTo(S, n - 1) : Len(r) = n - 1}, x \in S}

CliInputs == SeqsUpTo(CliRecords, MaxCliRecords)

\* --policy: none, or a JSON object with some of the caps
CliPolicies ==
    {Null,
     [grid_stress_cap |-> Rat(1, 2)],
     [energy_cap_w |-> Num(1000), grid_stress_cap |-> Rat(1, 2)]}

InitCli ==
    /\ out = NoCall
    /\ tsv = EmptyTsv /\ cost = <<>> /\ AggIdle /\ NormIdle /\ BoardIdle

\* args.values['work-units-mode'] || 'infra'
ModeOf(modeArg) == IF modeArg = "" THEN "infra" ELSE modeArg

\* enst main() up to the loop: parse the arguments, check the mode,
\* construct the leaderboard
EnstMain(modeArg, input) ==
    /\ out = NoCall
    /\ IF ModeOf(modeArg) \notin {"infra", "domain"}
       THEN /\ out' = [fn |-> "enst", modeArg |-> modeArg, phase |-> "exited", code |-> 1,
                       input |-> input, outputRecords |-> <<>>, csv |-> <<>>]
            /\ UNCHANGED board
       ELSE /\ out' = [fn |-> "enst", modeArg |-> modeArg, phase |-> "loop", code |-> 0,
                       input |-> input, outputRecords |-> <<>>, csv |-> <<>>]
            /\ board' = <<NewBoard(ModeOf(modeArg), DEFAULT_PRICE_USD_PER_MWH)>>
    /\ UNCHANGED <<tsv, cost, power, powerFed, powerOut, usage, usageFed, usageOut,
                   norm, normOut, boardOut>>

\* one iteration of `for await (const record of enstStream)`
EnstLoop ==
    /\ out.fn = "enst" /\ out.phase = "loop"
    /\ Len(out.outputRecords) < Len(out.input)
    /\ board' = [board EXCEPT ![1].sites =
                    addRecord(@, computeEnstStream(out.input[Len(out.outputRecords) + 1],
                                                   ModeOf(out.modeArg), Num(1)),
                              board[1].workUnitsMode, board[1].defaultPriceUsdPerMwh)]
    /\ out' = [out EXCEPT !.outputRecords =
                  Append(@, computeEnstStream(out.input[Len(out.outputRecords) + 1],
                                              ModeOf(out.modeArg), Num(1)))]
    /\ UNCHANGED <<tsv, cost, power, powerFed, powerOut, usage, usageFed, usageOut,
                   norm, normOut, boardOut>>

\* the outputs after the loop: leaderboard.csv
EnstWrite ==
    /\ out.fn = "enst" /\ out.phase = "loop"
    /\ Len(out.outputRecords) = Len(out.input)
    /\ board' = [board EXCEPT ![1].sites = SitesAfterRead(@)]
    /\ out' = [out EXCEPT !.phase = "done",
                          !.csv = toCsv(getLeaderboard(board[1].sites,
                                                       board[1].defaultPriceUsdPerMwh))]
    /\ UNCHANGED <<tsv, cost, power, powerFed, powerOut, usage, usageFed, usageOut,
                   norm, normOut, boardOut>>

\* replay main() up to the ENST loop: parse the arguments, load the policy,
\* collect the input into baselineRecords
ReplayMain(modeArg, policy, input) ==
    /\ out = NoCall
    /\ out' = [fn |-> "replay", modeArg |-> modeArg, phase |-> "enst", code |-> 0,
               policy |-> policy, baselineRecords |-> input,
               processedBaseline |-> <<>>, policyRecords |-> <<>>, impact |-> Null]
    /\ UNCHANGED <<tsv, cost, power, powerFed, powerOut, usage, usageFed, usageOut,
                   norm, normOut, board, boardOut>>

\* one iteration of the loop over computeEnstStream(baselineRecords, ...)
ReplayEnstLoop ==
    /\ out.fn = "replay" /\ out.phase = "enst"
    /\ Len(out.processedBaseline) < Len(out.baselineRecords)
    /\ out' = [out EXCEPT !.processedBaseline =
                  Append(@, computeEnstStream(out.baselineRecords[Len(out.processedBaseline) + 1],
                                              ModeOf(out.modeArg), Num(1)))]
    /\ UNCHANGED <<tsv, cost, power, powerFed, powerOut, usage, usageFed, usageOut,
                   norm, normOut, board, boardOut>>

\* the ENST loop is over: the policy loop starts, or the records are printed
ReplayEnstDone ==
    /\ out.fn = "replay" /\ out.phase = "enst"
    /\ Len(out.processedBaseline) = Len(out.baselineRecords)
    /\ out' = [out EXCEPT !.phase = IF out.policy # Null THEN "policy" ELSE "done"]
    /\ UNCHANGED <<tsv, cost, power, powerFed, powerOut, usage, usageFed, usageOut,
                   norm, normOut, board, boardOut>>

\* one iteration of the loop over applyPolicyStream(processedBaseline, policy)
ReplayPolicyLoop ==
    /\ out.fn = "replay" /\ out.phase = "policy"
    /\ Len(out.policyRecords) < Len(out.processedBaseline)
    /\ out' = [out EXCEPT !.policyRecords =
                  Append(@, applyPolicyStream(out.processedBaseline[Len(out.policyRecords) + 1],
                                              MergedPolicy(out.policy)))]
    /\ UNCHANGED <<tsv, cost, power, powerFed, powerOut, usage, usageFed, usageOut,
                   norm, normOut, board, boardOut>>

\* computePolicyImpact on the two arrays; the summary is written
ReplayImpact ==
    /\ out.fn = "replay" /\ out.phase = "policy"
    /\ Len(out.policyRecords) = Len(out.processedBaseline)
    /\ out' = [out EXCEPT !.phase = "done",
                          !.impact = computePolicyImpact(out.processedBaseline,
                                                         out.policyRecords,
                                                         DEFAULT_PRICE_USD_PER_MWH)]
    /\ UNCHANGED <<tsv, cost, power, powerFed, powerOut, usage, usageFed, usageOut,
                   norm, normOut, board, boardOut>>

NextCli ==
    \/ \E modeArg \in ModeArgs, input \in CliInputs : EnstMain(modeArg, input)
    \/ EnstLoop
    \/ EnstWrite
    \/ \E modeArg \in ModeArgs, policy \in CliPolicies, input \in CliInputs :
          ReplayMain(modeArg, policy, input)
    \/ ReplayEnstLoop
    \/ ReplayEnstDone
    \/ ReplayPolicyLoop
    \/ ReplayImpact

SpecCli == InitCli /\ [][NextCli]_vars

-----------------------------------------------------------------------------
(* Stream harness: computeEnstStream (src/src/enst_compute/index.js) over a *)
(* list of input objects, one action per record the generator yields.      *)
(* `out` holds the options, the input objects as they are now, the list as *)
(* it was given, and the records yielded so far.                           *)

MaxStreamRecords == 2

StreamTsvs ==
    {[EmptyTsv EXCEPT !.energy_j = ej, !.work_units = old[1], !.enst = old[1],
                      !.validated_work_units = old[2], !.validated_steps = vs,
                      !.cpu_core_seconds = Num(2), !.gpu_seconds = Num(1)] :
        ej \in {Undef, Null, Num(0), Num(4)},
        old \in {<<Undef, Undef>>, <<Num(6), Null>>, <<Num(6), Num(7)>>},
        vs \in {Undef, Num(3)}}

InitStream ==
    /\ out \in {[fn |-> "computeEnstStream", workUnitsMode |-> mode, gpuWeight |-> w,
                 given |-> input, input |-> input, yielded |-> <<>>, done |-> FALSE] :
                  mode \in WorkUnitsModes, w \in {Undef, Num(2)},
                  input \in SeqsUpTo(StreamTsvs, MaxStreamRecords)}
    /\ tsv = EmptyTsv /\ cost = <<>> /\ AggIdle /\ NormIdle /\ BoardIdle

\* one iteration of `for await (const tsv of tsvRecords)`: record = {...tsv}
\* is a new object, the input object is left as it is
StreamYield ==
    /\ out.fn = "computeEnstStream" /\ ~out.done
    /\ Len(out.yielded) < Len(out.input)
    /\ out' = [out EXCEPT !.yielded =
                  Append(@, computeEnstStream(out.input[Len(out.yielded) + 1],
                                              out.workUnitsMode, out.gpuWeight))]
    /\ UNCHANGED <<tsv, cost, power, powerFed, powerOut, usage, usageFed, usageOut,
                   norm, normOut, board, boardOut>>

\* the input is exhausted: the generator returns
StreamReturn ==
    /\ out.fn = "computeEnstStream" /\ ~out.done
    /\ Len(out.yielded) = Len(out.input)
    /\ out' = [out EXCEPT !.done = TRUE]
    /\ UNCHANGED <<tsv, cost, power, powerFed, powerOut, usage, usageFed, usageOut,
                   norm, normOut, board, boardOut>>

NextStream ==
    \/ StreamYield
    \/ StreamReturn

SpecStream == InitStream /\ [][NextStream]_vars

-----------------------------------------------------------------------------
(* Bucket harness: one PowerAggregator fed records whose timestamps are in  *)
(* seconds, milliseconds or microseconds, absent, or not a number (a JSON   *)
(* string that readPowerNdjson passes on as it is).                         *)

BucketRecords ==
    {[EmptyPowerRecord EXCEPT !.ts = ts, !.site_id = SiteA, !.power_w = Num(8)] :
        ts \in {Undef, Num(100), Num(400), Sci(17, 11), Sci(17, 14),
                Str(<<"n", "/", "a">>)}}
    \cup {[EmptyPowerRecord EXCEPT !.timestamp = Num(400), !.machine_id = SiteB,
                                   !.watts = Num(6)],
          [EmptyPowerRecord EXCEPT !.t = Num(-100), !.site_id = SiteA,
                                   !.power = Str(<<"n", "/", "a">>)]}

NextBucket ==
    \/ \E record \in BucketRecords : AddPowerRecord(1, record)
    \/ EmitPower(1)

SpecBucket == InitAgg /\ [][NextBucket]_vars

-----------------------------------------------------------------------------
(* Generator harness: emit() of both aggregators is a generator function    *)
(* (`*emit()`), so calling it runs nothing; each next() resumes the loop    *)
(* `for (const window of this.windows.values())` over the live Map, whose   *)
(* iterator also visits entries set after the iteration began.  `out`      *)
(* holds one generator per aggregator: the Map as it was when emit() was   *)
(* called, the number of windows visited and the records yielded.          *)

MaxLazySamples == 2

LazyPowerRecords ==
    {[EmptyPowerRecord EXCEPT !.ts = Num(0), !.site_id = SiteA, !.power_w = Num(10)],
     [EmptyPowerRecord EXCEPT !.ts = Num(100), !.site_id = SiteA, !.power_w = Num(2)],
     [EmptyPowerRecord EXCEPT !.ts = Num(400), !.site_id = SiteA, !.power_w = Num(8)]}

LazyUsageRecords ==
    {[EmptyUsageRecord EXCEPT !.ts = Sci(5, 6), !.site_id = SiteA, !.cpu_util = Rat(1, 2)],
     [EmptyUsageRecord EXCEPT !.ts = Sci(9, 6), !.site_id = SiteA, !.cpu_util = Rat(1, 4)],
     [EmptyUsageRecord EXCEPT !.ts = Sci(4, 8), !.site_id = SiteA, !.cpu_util = Num(1)]}

NoGenerator == [called |-> FALSE]
NewGenerator(windows) ==
    [called |-> TRUE, atCall |-> windows, pos |-> 0, recs |-> <<>>, done |-> FALSE]

InitLazy ==
    /\ AggIdle
    /\ out = [fn |-> "emit", power |-> NoGenerator, usage |-> NoGenerator]
    /\ tsv = EmptyTsv /\ cost = <<>> /\ NormIdle /\ BoardIdle

LazyAddPower(record) ==
    /\ Len(powerFed[1]) < MaxLazySamples
    /\ power' = [power EXCEPT ![1] = addPowerRecord(@, record)]
    /\ powerFed' = [powerFed EXCEPT ![1] = Append(@, record)]
    /\ UNCHANGED <<tsv, out, cost, powerOut, usage, usageFed, usageOut, norm, normOut,
                   board, boardOut>>

LazyAddUsage(record) ==
    /\ Len(usageFed[1]) < MaxLazySamples
    /\ usage' = [usage EXCEPT ![1] = addUsageRecord(@, record)]
    /\ usageFed' = [usageFed EXCEPT ![1] = Append(@, record)]
    /\ UNCHANGED <<tsv, out, cost, power, powerFed, powerOut, usageOut, norm, normOut,
                   board, boardOut>>

\* const records = aggregator.emit()
LazyCallEmitPower ==
    /\ ~out.power.called
    /\ out' = [out EXCEPT !.power = NewGenerator(power[1])]
    /\ UNCHANGED <<tsv, cost, power, powerFed, powerOut, usage, usageFed, usageOut,
                   norm, normOut, board, boardOut>>

LazyCallEmitUsage ==
    /\ ~out.usage.called
    /\ out' = [out EXCEPT !.usage = NewGenerator(usage[1])]
    /\ UNCHANGED <<tsv, cost, power, powerFed, powerOut, usage, usageFed, usageOut,
                   norm, normOut, board, boardOut>>

\* records.next(): the loop body for the next window of the Map, or the end
LazyNextPower ==
    /\ out.power.called /\ ~out.power.done
    /\ IF out.power.pos < Len(power[1])
       THEN /\ out' = [out EXCEPT
                         !.power.pos = @ + 1,
                         !.power.recs =
                             Append(@, PowerEmitRecord(power[1][out.power.pos + 1].val))]
            /\ power' = [power EXCEPT ![1][out.power.pos + 1].val.power_samples =
                                          computeEnergy(@).samples]
       ELSE /\ out' = [out EXCEPT !.power.done = TRUE]
            /\ UNCHANGED power
    /\ UNCHANGED <<tsv, cost, powerFed, powerOut, usage, usageFed, usageOut,
                   norm, normOut, board, boardOut>>

LazyNextUsage ==
    /\ out.usage.called /\ ~out.usage.done
    /\ IF out.usage.pos < Len(usage[1])
       THEN out' = [out EXCEPT
                      !.usage.pos = @ + 1,
                      !.usage.recs =
                          Append(@, UsageEmitRecord(usage[1][out.usage.pos + 1].val))]
       ELSE out' = [out EXCEPT !.usage.done = TRUE]
    /\ UNCHANGED <<tsv, cost, power, powerFed, powerOut, usage, usageFed, usageOut,
                   norm, normOut, board, boardOut>>

NextLazy ==
    \/ \E record \in LazyPowerRecords : LazyAddPower(record)
    \/ \E record \in LazyUsageRecords : LazyAddUsage(record)
    \/ LazyCallEmitPower
    \/ LazyCallEmitUsage
    \/ LazyNextPower
    \/ LazyNextUsage

SpecLazy == InitLazy /\ [][NextLazy]_vars

-----------------------------------------------------------------------------
(* Policy stream harness: applyPolicyStream (src/src/cost/index.js) over a  *)
(* list of records that computeEnstStream yielded, one action per record.  *)
(* `out` holds the policy argument, the input objects as they are now, the *)
(* list as it was given, and the records yielded so far.                   *)

MaxThrottleRecords == 2

\* 4 J and 0, 6 or 9 work units; power 500 or 1500 W around the cap 1000, grid stress
\* 0.9 above the cap 0.5
ThrottleTsvs ==
    {WithEnst([EmptyTsv EXCEPT !.energy_j = Num(4), !.work_units = wu,
                               !.validated_work_units = wu,
                               !.work_units_mode = Word("infra"),
                               !.power_w = pw, !.grid_stress_index = gs]) :
        wu \in {Num(0), Num(6), Num(9)},
        pw \in {Null, Num(500), Num(1500)},
        gs \in {Null, Rat(9, 10)}}

ThrottlePolicies ==
    {[energy_cap_w |-> Num(1000)],
     [energy_cap_w |-> Num(1000), throttle_factor |-> Num(0)],
     [energy_cap_w |-> Num(1000), throttle_factor |-> Rat(1, 4)],
     [energy_cap_w |-> Num(1000), throttle_factor |-> Rat(3, 4)],
     [energy_cap_w |-> Num(1000), grid_stress_cap |-> Rat(1, 2), throttle_factor |-> Num(1)],
     [grid_stress_cap |-> Rat(1, 2)]}

InitPolicyStream ==
    /\ out \in {[fn |-> "applyPolicyStream", policy |-> policy,
                 given |-> input, input |-> input, yielded |-> <<>>, done |-> FALSE] :
                  policy \in ThrottlePolicies,
                  input \in SeqsUpTo(ThrottleTsvs, MaxThrottleRecords)}
    /\ tsv = EmptyTsv /\ cost = <<>> /\ AggIdle /\ NormIdle /\ BoardIdle

\* one iteration of `for await (const record of records)`: applyThrottle
\* returns a new object in both branches, the input object is left as it is
PolicyStreamYield ==
    /\ out.fn = "applyPolicyStream" /\ ~out.done
    /\ Len(out.yielded) < Len(out.input)
    /\ out' = [out EXCEPT !.yielded =
                  Append(@, applyPolicyStream(out.input[Len(out.yielded) + 1],
                                              MergedPolicy(out.policy)))]
    /\ UNCHANGED <<tsv, cost, power, powerFed, powerOut, usage, usageFed, usageOut,
                   norm, normOut, board, boardOut>>

PolicyStreamReturn ==
    /\ out.fn = "applyPolicyStream" /\ ~out.done
    /\ Len(out.yielded) = Len(out.input)
    /\ out' = [out EXCEPT !.done = TRUE]
    /\ UNCHANGED <<tsv, cost, power, powerFed, powerOut, usage, usageFed, usageOut,
                   norm, normOut, board, boardOut>>

NextPolicyStream ==
    \/ PolicyStreamYield
    \/ PolicyStreamReturn

SpecPolicyStream == InitPolicyStream /\ [][NextPolicyStream]_vars

-----------------------------------------------------------------------------
(* Order harness: two fresh leaderboards in domain mode; the second is fed  *)
(* the records the first was fed, in any order.  Each record goes through  *)
(* computeEnstStream into addRecord, as in the loop of the enst CLI.       *)

MaxOrderRecords == 2

SourceX == Str(<<"x">>)
SourceY == Str(<<"y">>)

\* windows of site 'a' or 'b' at 0 and 300 s, 1000 J and 100 core-seconds,
\* with or without validated steps, from source x, y or none
OrderRecords ==
    {[f \in TsvFields \cup {"site_id", "cluster_id", "ts_start", "ts_end", "pue",
                            "price_usd_per_mwh", "data_source"} |->
        CASE f = "site_id" -> site
          [] f = "ts_start" -> Num(ts)
          [] f = "ts_end" -> Num(ts + 300)
          [] f = "energy_j" -> Num(1000)
          [] f = "cpu_core_seconds" -> Num(100)
          [] f = "validated_steps" -> vs
          [] f = "data_source" -> src
          [] OTHER -> Undef] :
        site \in {SiteA, SiteB},
        ts \in {0, 300},
        vs \in {Undef, Num(50)},
        src \in {Undef, SourceX, SourceY}}

InitOrder ==
    /\ board = [i \in Instances |-> NewBoard("domain", DEFAULT_PRICE_USD_PER_MWH)]
    /\ boardOut = [i \in Instances |-> NoRead]
    /\ out = NoCall
    /\ tsv = EmptyTsv /\ cost = <<>> /\ AggIdle /\ NormIdle

\* the fed lists of both leaderboards
OrderFed == [i \in Instances |-> boardOut[i].fed]

OrderAddRecord(i, record) ==
    /\ Len(boardOut[i].fed) < MaxOrderRecords
    /\ boardOut[i].reads = 0
    /\ MayFeed(OrderFed, i, record)
    /\ board' = [board EXCEPT ![i].sites =
                    addRecord(@, computeEnstStream(record, board[i].workUnitsMode, Num(1)),
                              board[i].workUnitsMode, board[i].defaultPriceUsdPerMwh)]
    /\ boardOut' = [boardOut EXCEPT ![i].fed = Append(@, record)]
    /\ UNCHANGED <<tsv, out, cost, power, powerFed, powerOut, usage, usageFed, usageOut,
                   norm, normOut>>

OrderGetLeaderboard(i) ==
    /\ boardOut[i].reads = 0
    /\ Len(boardOut[2].fed) = Len(boardOut[1].fed)
    /\ board' = [board EXCEPT ![i].sites = SitesAfterRead(@)]
    /\ boardOut' = [boardOut EXCEPT
                      ![i].reads = 1,
                      ![i].last = getLeaderboard(board[i].sites,
                                                 board[i].defaultPriceUsdPerMwh)]
    /\ UNCHANGED <<tsv, out, cost, power, powerFed, powerOut, usage, usageFed, usageOut,
                   norm, normOut>>

\* toCsv reads the leaderboard itself
OrderToCsv(i) ==
    /\ boardOut[i].reads = 0
    /\ Len(boardOut[2].fed) = Len(boardOut[1].fed)
    /\ board' = [board EXCEPT ![i].sites = SitesAfterRead(@)]
    /\ boardOut' = [boardOut EXCEPT
                      ![i].reads = 1,
                      ![i].last = getLeaderboard(board[i].sites,
                                                 board[i].defaultPriceUsdPerMwh),
                      ![i].csv = toCsv(getLeaderboard(board[i].sites,
                                                      board[i].defaultPriceUsdPerMwh))]
    /\ UNCHANGED <<tsv, out, cost, power, powerFed, powerOut, usage, usageFed, usageOut,
                   norm, normOut>>

NextOrder ==
    \/ \E i \in Instances, record \in OrderRecords : OrderAddRecord(i, record)
    \/ \E i \in Instances : OrderGetLeaderboard(i)
    \/ \E i \in Instances : OrderToCsv(i)

SpecOrder == InitOrder /\ [][NextOrder]_vars

-----------------------------------------------------------------------------
(* Properties of the work-unit, ENST and cost functions                    *)

\* C1: computeEnst(record) returns work_units / energy_j (the number r with
\* r * energy_j = work_units) if and only if energy_j is present and > 0 and
\* work_units is present, zero included; in every other case (energy_j null,
\* undefined or <= 0, or work_units null or undefined) it returns null.
C1_ComputeEnstIffComputable ==
    out.fn = "computeEnst" =>
        LET e == tsv.energy_j
            w == tsv.work_units
            computable == Present(e) /\ JsGt(e, Num(0)) /\ Present(w)
        IN  /\ computable => out.ret.k = "num" /\ JsMul(out.ret, e) = w
            /\ ~computable => out.ret = Null

C1_Witness ==
    /\ out.fn = "computeEnst"
    /\ tsv.energy_j = Num(4) /\ tsv.work_units = Num(6)
    /\ out.ret = Rat(3, 2)

\* the TSV record invariant of a record r
EnstOnlyFromFullPair(r) ==
    Present(r.enst) =>
        /\ Present(r.energy_j) /\ JsGe(r.energy_j, Num(0))
        /\ Present(r.work_units) /\ JsGe(r.work_units, Num(0))

\* C2: in every record computeEnstStream yields, and every record
\* applyPolicyStream returns from such a record, a non-null enst comes with
\* energy_j and work_units both present and both non-negative.
C2_EnstNeverFromPartialPair ==
    out.fn \in {"computeEnstStream", "applyPolicyStream"} =>
        EnstOnlyFromFullPair(out.rec)

\* C3 (as stated): computeWorkUnitsDomain returns mode 'domain' whenever
\* validated_steps is present and mode 'infra_fallback' for every record in
\* which validated_steps is absent, the fallback value being
\* computeWorkUnitsInfra of the same record.
C3_FallbackWheneverNoValidatedSteps ==
    out.fn = "computeWorkUnitsDomain" =>
        /\ Present(tsv.validated_steps) => out.ret.mode = "domain"
        /\ ~Present(tsv.validated_steps) =>
              /\ out.ret.mode = "infra_fallback"
              /\ out.ret.value = computeWorkUnitsInfra(tsv, Undef)

\* C3 (amended): computeWorkUnitsDomain returns mode 'domain' whenever
\* validated_steps is present (0 included) or, validated_steps being absent,
\* timesteps is present; it returns mode 'infra_fallback' exactly for the
\* records in which both are absent, and the fallback value then equals
\* computeWorkUnitsInfra of the same record with the default GPU weight.
C3_FallbackWhenNoStepsAtAll ==
    out.fn = "computeWorkUnitsDomain" =>
        /\ Present(tsv.validated_steps) =>
              out.ret = [value |-> tsv.validated_steps, mode |-> "domain"]
        /\ (~Present(tsv.validated_steps) /\ Present(tsv.timesteps)) =>
              out.ret = [value |-> tsv.timesteps, mode |-> "domain"]
        /\ (~Present(tsv.validated_steps) /\ ~Present(tsv.timesteps)) =>
              /\ out.ret.mode = "infra_fallback"
              /\ out.ret.value = computeWorkUnitsInfra(tsv, Undef)

C3_Witness ==
    /\ out.fn = "computeWorkUnitsDomain"
    /\ tsv.validated_steps = Null /\ tsv.timesteps = Num(5)
    /\ out.ret = [value |-> Num(5), mode |-> "domain"]

\* C4: computeWorkUnits(record, 'domain', w) returns validated_steps when
\* present, else timesteps when present, both tagged 'domain'; else the result
\* is tagged 'infra_fallback' and its value is the value that
\* computeWorkUnits(record, 'infra', w) returns for the same record and w.
C4_DomainFallbackIsInfraOfSameWeight ==
    (out.fn = "computeWorkUnits" /\ out.mode = "domain") =>
        IF Present(tsv.validated_steps)
        THEN out.ret = [value |-> tsv.validated_steps, mode |-> "domain"]
        ELSE IF Present(tsv.timesteps)
        THEN out.ret = [value |-> tsv.timesteps, mode |-> "domain"]
        ELSE /\ out.ret.mode = "infra_fallback"
             /\ out.ret.value = computeWorkUnits(tsv, "infra", out.gpuWeight).value

\* the infra formula of the claim, with the window duration d
InfraFormula(t, w, d) ==
    LET cpu == IF Present(t.cpu_core_seconds) THEN t.cpu_core_seconds
               ELSE JsMul(JsMul(IF Present(t.cpu_util) THEN t.cpu_util ELSE Num(0), d),
                          Num(100))
        gpu == IF Present(t.gpu_seconds) THEN t.gpu_seconds
               ELSE JsMul(JsMul(IF Present(t.gpu_util) THEN t.gpu_util ELSE Num(0), d),
                          Num(8))
    IN  JsAdd(cpu, JsMul(gpu, IF w = Undef THEN Num(1) ELSE w))

\* C5 (as stated): in infra mode the work units are
\* cpu_core_seconds + gpu_seconds * gpu_weight, an absent cpu_core_seconds
\* being cpu_util * window_duration_s * 100 and an absent gpu_seconds
\* gpu_util * window_duration_s * 8 (absent utilization = 0), a present value
\* used as given; the mode is 'infra'.
C5_InfraUsesWindowDuration ==
    (out.fn = "computeWorkUnits" /\ out.mode = "infra") =>
        /\ out.ret.mode = "infra"
        /\ out.ret.value = InfraFormula(tsv, out.gpuWeight, tsv.window_duration_s)

\* C5 (amended): as stated, with the window duration taken as 300 s when
\* window_duration_s is absent or 0.
C5_InfraUsesWindowDurationOr300 ==
    (out.fn = "computeWorkUnits" /\ out.mode = "infra") =>
        /\ out.ret.mode = "infra"
        /\ out.ret.value =
              InfraFormula(tsv, out.gpuWeight,
                           IF Present(tsv.window_duration_s)
                              /\ tsv.window_duration_s # Num(0)
                           THEN tsv.window_duration_s ELSE Num(300))

C5_Witness ==
    /\ out.fn = "computeWorkUnits" /\ out.mode = "infra" /\ out.gpuWeight = Num(2)
    /\ tsv.cpu_core_seconds = Undef /\ tsv.cpu_util = Rat(1, 2)
    /\ tsv.gpu_seconds = Null /\ tsv.gpu_util = Rat(1, 4)
    /\ tsv.window_duration_s = Undef
    /\ out.ret = [value |-> Num(16200), mode |-> "infra"]

\* what the claim says computeCostUsd returns, the sign apart
CostUsdValue ==
    LET e == cost.energyJ
    IN  IF Present(e) /\ JsGt(e, Num(0))
        THEN JsMul(out.ret, JOULES_PER_MWH) = JsMul(e, cost.price)
        ELSE out.ret = Num(0)

\* C10 (as stated): computeCostUsd(energyJ, price) equals
\* (energyJ / 3.6e9) * price for energyJ > 0, is 0 for a null, undefined, zero
\* or negative energyJ, and is never negative, for every energy and price.
C10_CostNeverNegative ==
    out.fn = "computeCostUsd" => CostUsdValue /\ ~JsLt(out.ret, Num(0))

\* C10 (amended): computeCostUsd(energyJ, price) equals
\* (energyJ / 3.6e9) * price for energyJ > 0 and is 0 for a null, undefined,
\* zero or negative energyJ; it is never negative when the price is >= 0.
C10_CostNeverNegativeForPriceGe0 ==
    out.fn = "computeCostUsd" =>
        /\ CostUsdValue
        /\ JsGe(cost.price, Num(0)) => ~JsLt(out.ret, Num(0))

C10_Witness ==
    /\ out.fn = "computeCostUsd"
    /\ cost.energyJ = Sci(36, 8) /\ cost.price = Num(50)
    /\ out.ret = Num(50)

-----------------------------------------------------------------------------
(* Properties of the aggregators                                           *)

RecordSet(recs) == {recs[k] : k \in DOMAIN recs}

\* two fresh instances fed the same multiset of samples, each emitted after
\* its last add
SamePowerInput ==
    /\ powerOut[1].emitted /\ ~powerOut[1].reused
    /\ powerOut[2].emitted /\ ~powerOut[2].reused
    /\ SameMultiset(powerFed[1], powerFed[2])
SameUsageInput ==
    /\ usageOut[1].emitted /\ ~usageOut[1].reused
    /\ usageOut[2].emitted /\ ~usageOut[2].reused
    /\ SameMultiset(usageFed[1], usageFed[2])

PowerOrderIndependent ==
    SamePowerInput => RecordSet(powerOut[1].recs) = RecordSet(powerOut[2].recs)
UsageOrderIndependent ==
    SameUsageInput => RecordSet(usageOut[1].recs) = RecordSet(usageOut[2].recs)

\* C6: feeding the same multiset of samples to a fresh PowerAggregator or a
\* fresh UsageAggregator in any permutation yields the same emit() record for
\* every window key.
C6_AggregationOrderIndependent == PowerOrderIndependent /\ UsageOrderIndependent

\* sum over i of ((p[i] + p[i+1]) / 2) * (t[i+1] - t[i]), t in seconds, for
\* the samples S taken in the order ord
RECURSIVE TrapezoidalSum(_, _, _)
TrapezoidalSum(S, ord, i) ==
    IF i >= Len(S) THEN Num(0)
    ELSE LET a == S[ord[i]]
             b == S[ord[i + 1]]
         IN  JsAdd(JsMul(JsDiv(JsAdd(a.power, b.power), Num(2)),
                         JsDiv(JsSub(b.ts, a.ts), Sci(1, 6))),
                   TrapezoidalSum(S, ord, i + 1))

\* the orders of S's samples that are sorted by timestamp
SortedOrders(S) ==
    {ord \in [DOMAIN S -> DOMAIN S] :
        /\ \A i, j \in DOMAIN S : i # j => ord[i] # ord[j]
        /\ \A i \in DOMAIN S : i < Len(S) => JsLe(S[ord[i]].ts, S[ord[i + 1]].ts)}

\* C7: a window with 0 accepted power samples emits energy 0; with exactly 1
\* sample, power * 300 (the window duration in seconds); with 2 or more, the
\* trapezoidal sum over the samples sorted by timestamp.
C7_EnergyPerWindow ==
    \A i \in Instances :
        powerOut[i].emitted =>
            \A k \in DOMAIN power[i] :
                LET S == power[i][k].val.power_samples
                    energy == powerOut[i].recs[k].energy_j_window
                IN  /\ Len(S) = 0 => energy = Num(0)
                    /\ Len(S) = 1 => energy = JsMul(S[1].power, Num(300))
                    /\ Len(S) >= 2 =>
                          \E ord \in SortedOrders(S) :
                              energy = TrapezoidalSum(S, ord, 1)

\* samples arrived out of order (t = 100 s before t = 0 s) and were integrated:
\* ((10 + 2) / 2) * 100 J
C7_Witness ==
    /\ powerOut[1].emitted
    /\ Len(powerFed[1]) = 2
    /\ powerFed[1][1].ts = Num(100) /\ powerFed[1][2].ts = Num(0)
    /\ powerOut[1].recs[1].energy_j_window = Num(600)

InUnitInterval(x) == x.k = "num" /\ JsGe(x, Num(0)) /\ JsLe(x, Num(1))

\* C8: every record UsageAggregator.emit yields has cpu_util in [0,1] and
\* gpu_util and mem_util each null or in [0,1], whatever was added.
C8_UtilizationInUnitInterval ==
    \A i \in Instances :
        usageOut[i].emitted =>
            \A k \in DOMAIN usageOut[i].recs :
                LET r == usageOut[i].recs[k]
                IN  /\ InUnitInterval(r.cpu_util)
                    /\ r.gpu_util = Null \/ InUnitInterval(r.gpu_util)
                    /\ r.mem_util = Null \/ InUnitInterval(r.mem_util)

-----------------------------------------------------------------------------
(* Properties of the normalizer                                            *)

\* the records a Map holds
MapValues(m) == {m[i].val : i \in DOMAIN m}

\* the (site_id, window start) pairs of the records stored in either Map
StoredWindows ==
    {<<r.site_id, r.ts_start>> :
        r \in MapValues(norm.usageByKey) \cup MapValues(norm.powerByKey)}

StoredUsage(w) ==
    {r \in MapValues(norm.usageByKey) : <<r.site_id, r.ts_start>> = w}
StoredPower(w) ==
    {r \in MapValues(norm.powerByKey) : <<r.site_id, r.ts_start>> = w}

\* the emitted record of window w is the join of what is stored for w, with
\* the defaults on each missing side
JoinedRecord(rec, w) ==
    /\ rec.site_id = w[1]
    /\ rec.ts_start = w[2]
    /\ \A u \in StoredUsage(w) :
          /\ rec.cpu_util = u.cpu_util
          /\ rec.gpu_util = u.gpu_util
          /\ rec.mem_util = u.mem_util
          /\ rec.job_queue_depth = u.job_queue_depth
    /\ \A pw \in StoredPower(w) :
          /\ rec.power_w = pw.power_w
          /\ rec.energy_j = pw.energy_j_window
    /\ StoredPower(w) = {} => rec.power_w = Null /\ rec.energy_j = Null
    /\ StoredUsage(w) = {} =>
          /\ rec.cpu_util = Num(0)
          /\ rec.job_queue_depth = Num(0)
          /\ rec.gpu_util = Null
          /\ rec.mem_util = Null

\* C9: TsvNormalizer.emit() is a full outer join of the usage and power
\* mappings: it yields exactly one record per distinct (site_id, window start)
\* key present in either mapping, the record carries the site_id and window
\* start of the records stored under that key, a window with usage only has
\* power_w = null and energy_j = null, and a window with power only has
\* cpu_util = 0, job_queue_depth = 0, gpu_util = null and mem_util = null.
C9_EmitIsFullOuterJoin ==
    normOut.emitted =>
        /\ Len(normOut.recs) = Cardinality(StoredWindows)
        /\ \A w \in StoredWindows :
              \E k \in DOMAIN normOut.recs :
                  /\ JoinedRecord(normOut.recs[k], w)
                  /\ \A j \in DOMAIN normOut.recs :
                        (normOut.recs[j].site_id = w[1]
                           /\ normOut.recs[j].ts_start = w[2]) => j = k

-----------------------------------------------------------------------------
(* Properties of the cost chain                                            *)

\* an ENST from which no energy can be derived: null, undefined or <= 0
Unusable(enst) == enst = Null \/ enst = Undef \/ JsLe(enst, Num(0))

\* C11: computeEnergyForWork returns Infinity exactly when enst is null,
\* undefined or <= 0; computeCostForWork returns Infinity whenever that energy
\* is Infinity; computeDeltaCostPerWork returns null whenever either ENST is
\* null, undefined or <= 0, and never returns +Infinity, -Infinity or NaN.
C11_UnboundedNeverLeaksIntoDelta ==
    /\ out.fn = "computeEnergyForWork" =>
          (out.ret = Infinity <=> Unusable(cost.enstPolicy))
    /\ out.fn = "computeCostForWork" =>
          (Unusable(cost.enstPolicy) => out.ret = Infinity)
    /\ out.fn = "computeDeltaCostPerWork" =>
          /\ Unusable(cost.enstBaseline) \/ Unusable(cost.enstPolicy) => out.ret = Null
          /\ out.ret = Null \/ out.ret.k = "num"

C11_Witness ==
    /\ out.fn = "computeDeltaCostPerWork"
    /\ cost.enstBaseline = Num(0) /\ cost.enstPolicy = Rat(1, 2)
    /\ cost.price = Num(-10)
    /\ out.ret = Null

\* the policy ENST is better than a positive baseline ENST
PolicyBeatsBaseline ==
    /\ Present(cost.enstBaseline) /\ Present(cost.enstPolicy)
    /\ JsGt(cost.enstBaseline, Num(0))
    /\ JsGt(cost.enstPolicy, cost.enstBaseline)

\* the delta is the cost of the reference work at the policy ENST minus its
\* cost at the baseline ENST: delta * 3.6e9 = price * (1e9/policy - 1e9/baseline)
DeltaIsPolicyMinusBaseline ==
    JsMul(out.ret, JOULES_PER_MWH) =
        JsMul(cost.price,
              JsSub(JsDiv(REFERENCE_WORK_UNITS, cost.enstPolicy),
                    JsDiv(REFERENCE_WORK_UNITS, cost.enstBaseline)))

-----------------------------------------------------------------------------
(* Properties of policy evaluation and throttling                          *)

\* the record breaches a configured cap
BreachesEnergyCap(r, p) ==
    /\ p.energy_cap_w # Null /\ r.power_w.k = "num"
    /\ NumLess(p.energy_cap_w, r.power_w)
BreachesThermalCap(r, p) ==
    /\ p.thermal_cap_w # Null /\ r.thermal_headroom_w.k = "num"
    /\ NumLess(r.thermal_headroom_w, p.thermal_cap_w)
BreachesGridCap(r, p) ==
    /\ p.grid_stress_cap # Null /\ r.grid_stress_index.k = "num"
    /\ NumLess(p.grid_stress_cap, r.grid_stress_index)

\* how many entries of the violations list have the type
Listed(violations, type) ==
    Cardinality({i \in DOMAIN violations : violations[i].type = type})

\* C13: evaluatePolicy lists exactly one violation for each configured cap the
\* record breaches and nothing else; throttle_applied is true iff an
\* energy_cap or thermal_cap violation is listed; migrate_flag is true iff a
\* grid_stress violation is listed; throttle_factor is min(1, the policy's
\* throttle_factor) when throttled and 1 otherwise.
C13_EvaluationMatchesBreaches ==
    out.fn = "evaluatePolicy" =>
        LET e == out.ret
            v == out.ret.violations
        IN  /\ Listed(v, "energy_cap") = IF BreachesEnergyCap(tsv, out.policy) THEN 1 ELSE 0
            /\ Listed(v, "thermal_cap") = IF BreachesThermalCap(tsv, out.policy) THEN 1 ELSE 0
            /\ Listed(v, "grid_stress") = IF BreachesGridCap(tsv, out.policy) THEN 1 ELSE 0
            /\ Len(v) = Listed(v, "energy_cap") + Listed(v, "thermal_cap")
                           + Listed(v, "grid_stress")
            /\ e.throttle_applied <=>
                  (Listed(v, "energy_cap") > 0 \/ Listed(v, "thermal_cap") > 0)
            /\ e.migrate_flag <=> Listed(v, "grid_stress") > 0
            /\ e.throttle_factor =
                  IF e.throttle_applied
                  THEN NumMin(Num(1), out.policy.throttle_factor)
                  ELSE Num(1)

\* a grid-stress violation alone: flagged for migration, not throttled
C13_Witness ==
    /\ out.fn = "evaluatePolicy"
    /\ Len(out.ret.violations) = 1
    /\ out.ret.violations[1].type = "grid_stress"
    /\ out.ret.migrate_flag /\ ~out.ret.throttle_applied
    /\ out.ret.throttle_factor = Num(1)

\* C14: applyThrottle on a throttled evaluation with factor f returns
\* work_units, validated_work_units, cpu_core_seconds and gpu_seconds (when
\* present) equal to the original times f and energy_j equal to the original
\* times (0.5 + 0.5 f), and for every policy throttle_factor the throttled
\* energy_j is never below 50% of the original energy_j.
C14_ThrottleKeepsHalfTheEnergy ==
    (out.fn = "applyThrottle" /\ out.evaluation.throttle_applied) =>
        LET f == out.evaluation.throttle_factor
            Scaled(field) ==
                Present(tsv[field]) => out.ret[field] = JsMul(tsv[field], f)
        IN  /\ Scaled("work_units") /\ Scaled("validated_work_units")
            /\ Scaled("cpu_core_seconds") /\ Scaled("gpu_seconds")
            /\ Present(tsv.energy_j) =>
                  /\ out.ret.energy_j =
                        JsMul(tsv.energy_j, JsAdd(Rat(1, 2), JsMul(Rat(1, 2), f)))
                  /\ JsGe(out.ret.energy_j, JsMul(tsv.energy_j, Rat(1, 2)))

-----------------------------------------------------------------------------
(* Properties of the leaderboard                                           *)

\* the place in the sites Map of the site an entry was made from
SiteIndex(sites, entry) ==
    MapIndex(sites, LeaderboardKey(entry.site_id, entry.cluster_id))

\* C15 as stated: after any sequence of addRecord calls, getLeaderboard()
\* returns the entries in strictly descending order of enst_units_per_j:
\* every entry's ENST is strictly greater than the next entry's.
C15_StrictlyDescending ==
    boardOut[1].reads > 0 =>
        \A k \in 1..(Len(boardOut[1].last) - 1) :
            JsGt(boardOut[1].last[k].enst_units_per_j,
                 boardOut[1].last[k + 1].enst_units_per_j)

\* C15: after any sequence of addRecord calls, getLeaderboard() returns the
\* entries in descending order of enst_units_per_j (no entry's ENST is below
\* the next entry's), and the ranking is stable: entries of equal ENST stand
\* in the order in which their sites were first added.
C15_DescendingAndStable ==
    boardOut[1].reads > 0 =>
        \A k \in 1..(Len(boardOut[1].last) - 1) :
            \/ JsGt(boardOut[1].last[k].enst_units_per_j,
                    boardOut[1].last[k + 1].enst_units_per_j)
            \/ /\ boardOut[1].last[k].enst_units_per_j
                    = boardOut[1].last[k + 1].enst_units_per_j
               /\ SiteIndex(board[1].sites, boardOut[1].last[k])
                    < SiteIndex(board[1].sites, boardOut[1].last[k + 1])

\* the site of ENST 0.1 was added first and is ranked second, after the
\* site of ENST 0.5
C15_Witness ==
    /\ boardOut[1].reads > 0
    /\ Len(boardOut[1].last) = 2
    /\ boardOut[1].last[1].enst_units_per_j = Rat(1, 2)
    /\ boardOut[1].last[2].enst_units_per_j = Rat(1, 10)
    /\ SiteIndex(board[1].sites, boardOut[1].last[2]) = 1

\* the (site_id, cluster_id) pair of a record; addRecord reads a missing
\* cluster_id as 'default'
PairOf(record) == <<record.site_id, OrElse(record.cluster_id, DefaultCluster)>>

\* the records addRecord was given: the input after computeEnstStream
AddedOf(i) ==
    [k \in DOMAIN boardOut[i].fed |->
        computeEnstStream(boardOut[i].fed[k], board[i].workUnitsMode, Num(1))]

\* the sum of the non-null values of a field over the records of a pair
RECURSIVE PairSum(_, _, _)
PairSum(records, pair, field) ==
    IF records = <<>> THEN Num(0)
    ELSE IF PairOf(records[Len(records)]) = pair /\ Present(records[Len(records)][field])
    THEN NumAdd(PairSum(SubSeq(records, 1, Len(records) - 1), pair, field),
                records[Len(records)][field])
    ELSE PairSum(SubSeq(records, 1, Len(records) - 1), pair, field)

\* an entry whose totals are those of the records added with the pair
EntryTotals(entry, records, pair) ==
    /\ <<entry.site_id, entry.cluster_id>> = pair
    /\ entry.energy_j = PairSum(records, pair, "energy_j")
    /\ entry.work_units = PairSum(records, pair, "work_units")
    /\ entry.enst_units_per_j =
          IF NumLess(Num(0), PairSum(records, pair, "energy_j"))
          THEN NumDiv(PairSum(records, pair, "work_units"),
                      PairSum(records, pair, "energy_j"))
          ELSE Num(0)

\* C16: after any sequence of addRecord calls, getLeaderboard() has exactly
\* one entry per distinct (site_id, cluster_id) pair seen; the entry's
\* energy_j and work_units are the sums of the non-null energy_j and
\* work_units of exactly the records added with that pair, and its
\* enst_units_per_j is work_units / energy_j when the total energy is > 0 and
\* 0 otherwise.
C16_OneEntryPerPair ==
    boardOut[1].reads > 0 =>
        /\ Len(boardOut[1].last)
              = Cardinality({PairOf(AddedOf(1)[k]) : k \in DOMAIN AddedOf(1)})
        /\ \A k \in DOMAIN AddedOf(1) :
              \E e \in DOMAIN boardOut[1].last :
                  EntryTotals(boardOut[1].last[e], AddedOf(1), PairOf(AddedOf(1)[k]))

-----------------------------------------------------------------------------
(* Properties of the CLIs                                                  *)

\* the records a run has put through computeEnstStream so far
Processed == IF out.fn = "enst" THEN out.outputRecords ELSE out.processedBaseline

\* C18: an invalid work-units mode (any string other than 'infra' and
\* 'domain') is a fatal error at both the enst CLI and the replay CLI: the
\* run stops with an error before any record is processed, and no record is
\* emitted with work units computed under the invalid mode string.
C18_InvalidModeIsFatal ==
    (out.fn \in {"enst", "replay"} /\ out.modeArg \notin {"infra", "domain"}) =>
        /\ out.phase = "exited" /\ out.code = 1
        /\ Processed = <<>>

\* the records of the run whose policy evaluation has the flag set
Evaluated(flag) ==
    {i \in DOMAIN out.policyRecords : out.policyRecords[i].evaluation[flag]}

\* C19: in the impact summary that computePolicyImpact builds from the
\* records yielded by applyPolicyStream, migrate_flagged_windows equals the
\* number of records whose policy evaluation set migrate_flag = true (which
\* is the grid_stress violation tally), throttled or not, and
\* throttled_windows equals the number of records whose evaluation set
\* throttle_applied = true.
C19_CountsMatchEvaluations ==
    (out.fn = "replay" /\ out.phase = "done" /\ out.policy # Null) =>
        /\ out.impact.migrate_flagged_windows = Cardinality(Evaluated("migrate_flag"))
        /\ out.impact.migrate_flagged_windows = out.impact.violations.grid_stress
        /\ out.impact.throttled_windows = Cardinality(Evaluated("throttle_applied"))

-----------------------------------------------------------------------------
(* Properties of the ingest functions                                      *)

\* the window records the running ingest function has yielded
Yielded ==
    IF out.fn = "ingestPowerdata"
    THEN (IF powerOut[1].emitted THEN powerOut[1].recs ELSE <<>>)
    ELSE (IF usageOut[1].emitted THEN usageOut[1].recs ELSE <<>>)

\* C20: when a siteId option is given to ingestGoogleClusterdata or
\* ingestPowerdata, every window record the function emits has site_id equal
\* to the override, whatever site, machine or node identifier fields the
\* input records carry.
C20_SiteIdOverrides ==
    (out.fn \in {"ingestGoogleClusterdata", "ingestPowerdata"} /\ out.siteId # Null) =>
        \A i \in DOMAIN Yielded : Yielded[i].site_id = out.siteId

-----------------------------------------------------------------------------
(* Properties of the window keys                                           *)

\* both samples went through their aggregator into the normalizer
BothJoined ==
    /\ out.fn = "export"
    /\ usageOut[1].emitted /\ powerOut[1].emitted /\ normOut.emitted

\* C21: a usage sample and a power sample that carry the same timestamp
\* value (in seconds, milliseconds or microseconds) and the same site id are
\* assigned the same window key by UsageAggregator and PowerAggregator, and
\* TsvNormalizer joins their windows into one TSV record.
C21_SameKeyInBothAggregators ==
    BothJoined =>
        /\ MapKeys(usage[1]) = MapKeys(power[1])
        /\ Len(normOut.recs) = 1
        /\ normOut.recs[1].cpu_util = Rat(1, 2)
        /\ normOut.recs[1].power_w = Num(8)

-----------------------------------------------------------------------------
(* Properties of unparseable samples                                       *)

Parseable(v) == v \in {Null, Undef} \/ ~IsNaN(v)

\* the record with every sample field that does not parse made absent
ScrubbedPower(record) ==
    [f \in PowerFields |->
        IF f \in {"power_w", "power", "watts", "watt", "power_watts", "pdu_power"}
           /\ ~Parseable(record[f])
        THEN Undef ELSE record[f]]

ScrubbedUsage(record) ==
    [f \in UsageFields |->
        IF f \in {"average_usage_cpus", "cpu_util", "assigned_memory",
                  "average_usage_memory", "mem_util", "gpu_util"}
           /\ ~Parseable(record[f])
        THEN Undef ELSE record[f]]

\* a fresh aggregator fed the parseable samples of `fed` alone
RECURSIVE PowerOfParseable(_)
PowerOfParseable(fed) ==
    IF fed = <<>> THEN <<>>
    ELSE addPowerRecord(PowerOfParseable(SubSeq(fed, 1, Len(fed) - 1)),
                        ScrubbedPower(fed[Len(fed)]))

RECURSIVE UsageOfParseable(_)
UsageOfParseable(fed) ==
    IF fed = <<>> THEN <<>>
    ELSE addUsageRecord(UsageOfParseable(SubSeq(fed, 1, Len(fed) - 1)),
                        ScrubbedUsage(fed[Len(fed)]))

PowerDropsUnparseable ==
    \A i \in Instances :
        powerOut[i].emitted =>
            powerOut[i].recs = emitPower(PowerOfParseable(powerFed[i])).recs

UsageDropsUnparseable ==
    \A i \in Instances :
        usageOut[i].emitted =>
            usageOut[i].recs = emitUsage(UsageOfParseable(usageFed[i]))

\* C22: a sample whose numeric field cannot be parsed as a number is dropped
\* from that field's sample list in both aggregators; the mean (and the
\* resource seconds or the energy) emitted for its window equals the value
\* computed from the parseable samples alone.
C22_UnparseableSampleDropped == PowerDropsUnparseable /\ UsageDropsUnparseable

-----------------------------------------------------------------------------
(* Properties of computeEnstStream                                         *)

\* the fields computeEnstStream writes according to the claim, and in the code
AugmentedFields == {"work_units", "work_units_mode", "enst"}
WrittenFields == AugmentedFields \cup {"validated_work_units"}

\* y is t with work_units, work_units_mode and enst written, every field
\* outside `written` as in t
AugmentedCopy(y, t, mode, w, written) ==
    /\ \A f \in TsvFields \ written : y[f] = t[f]
    /\ y.work_units = computeWorkUnits(t, mode, w).value
    /\ y.work_units_mode = Word(computeWorkUnits(t, mode, w).mode)
    /\ y.enst = computeEnst(y)

\* in infra mode work_units is non-null, the mode is 'infra', and enst is
\* non-null whenever the input's energy_j > 0
InfraOutput(y, t, mode) ==
    mode = "infra" =>
        /\ Present(y.work_units)
        /\ y.work_units_mode = Word("infra")
        /\ JsGt(t.energy_j, Num(0)) => Present(y.enst)

StreamInOrder(written) ==
    /\ out.input = out.given
    /\ Len(out.yielded) <= Len(out.input)
    /\ out.done => Len(out.yielded) = Len(out.input)
    /\ \A i \in DOMAIN out.yielded :
          /\ AugmentedCopy(out.yielded[i], out.given[i], out.workUnitsMode,
                           out.gpuWeight, written)
          /\ InfraOutput(out.yielded[i], out.given[i], out.workUnitsMode)

\* C23 as stated: computeEnstStream yields exactly one record per input record
\* in input order, each a copy of its input (the input object is not
\* modified) augmented with work_units, work_units_mode and enst = computeEnst
\* of the augmented record; in infra mode every output has non-null
\* work_units, work_units_mode 'infra', and non-null enst when energy_j > 0.
C23_CopyAugmentedWithThreeFields ==
    out.fn = "computeEnstStream" => StreamInOrder(AugmentedFields)

\* C23: the same, where the copy also has validated_work_units written: it is
\* set to work_units when the input's is null or undefined, and is the
\* input's otherwise.
C23_CopyAugmentedWithLegacyField ==
    out.fn = "computeEnstStream" =>
        /\ StreamInOrder(WrittenFields)
        /\ \A i \in DOMAIN out.yielded :
              out.yielded[i].validated_work_units =
                  IF Present(out.given[i].validated_work_units)
                  THEN out.given[i].validated_work_units
                  ELSE out.yielded[i].work_units

\* two different records went through the stream in infra mode; the first had
\* energy and a stale enst of 6, and came out with enst 4 / 4 = 1
C23_Witness ==
    /\ out.fn = "computeEnstStream" /\ out.done
    /\ out.workUnitsMode = "infra" /\ out.gpuWeight = Num(2)
    /\ Len(out.yielded) = 2
    /\ out.given[1] # out.given[2]
    /\ out.given[1].energy_j = Num(4) /\ out.given[1].enst = Num(6)
    /\ out.yielded[1].enst = Num(1)
    /\ out.given[1].validated_work_units = Null
    /\ out.yielded[1].validated_work_units = Num(4)

-----------------------------------------------------------------------------
(* Properties of the power buckets                                         *)

\* the timestamp in microseconds: below 1e10 it is in seconds, below 1e13 in
\* milliseconds, otherwise in microseconds
Microseconds(ts) ==
    IF JsLt(ts, Sci(1, 10)) THEN JsMul(ts, Sci(1, 6))
    ELSE IF JsLt(ts, Sci(1, 13)) THEN JsMul(ts, Sci(1, 3))
    ELSE ts

\* the timestamp, site and power a record carries under its field aliases
RawTimestamp(record) ==
    IF Present(record.ts) THEN record.ts
    ELSE IF Present(record.timestamp) THEN record.timestamp
    ELSE IF Present(record.time) THEN record.time
    ELSE IF Present(record.t) THEN record.t
    ELSE Num(0)
RawSite(record) ==
    IF Present(record.site_id) THEN record.site_id ELSE record.machine_id
RawPower(record) ==
    IF Present(record.power_w) THEN record.power_w
    ELSE IF Present(record.power) THEN record.power
    ELSE record.watts

\* the bucket spans one window that starts on a multiple of the window size
BucketBounds(w) ==
    /\ w.ts_end = JsAdd(w.ts_start, DEFAULT_WINDOW_SIZE_US)
    /\ \A j \in DOMAIN w.power_samples :
          /\ w.ts_start =
                JsMul(MathFloor(JsDiv(w.power_samples[j].ts, DEFAULT_WINDOW_SIZE_US)),
                      DEFAULT_WINDOW_SIZE_US)
          /\ JsLe(w.ts_start, w.power_samples[j].ts)
          /\ JsLt(w.power_samples[j].ts, w.ts_end)

\* the accepted sample of `record` is stored, at its time in microseconds,
\* in a bucket of its site
StoredInBucket(windows, record) ==
    \E k \in DOMAIN windows :
        /\ windows[k].val.site_id = RawSite(record)
        /\ \E j \in DOMAIN windows[k].val.power_samples :
              /\ windows[k].val.power_samples[j].ts = Microseconds(RawTimestamp(record))
              /\ windows[k].val.power_samples[j].power = ToNumber(RawPower(record))

\* C24: after any sequence of addPowerRecord calls, every bucket has
\* ts_start = floor(t / windowSize) * windowSize and ts_end = ts_start +
\* windowSize, and every sample stored in it satisfies ts_start <= t < ts_end,
\* t being the sample's timestamp converted to microseconds (below 1e10
\* seconds, below 1e13 milliseconds, otherwise microseconds).
C24_BucketInvariant ==
    /\ \A k \in DOMAIN power[1] : BucketBounds(power[1][k].val)
    /\ \A n \in DOMAIN powerFed[1] :
          ~IsNaN(RawPower(powerFed[1][n])) => StoredInBucket(power[1], powerFed[1][n])

\* the same for the records whose timestamp is a number
NumericTimestamps ==
    \A n \in DOMAIN powerFed[1] : ~IsNaN(RawTimestamp(powerFed[1][n]))
BucketInvariantForNumbers == NumericTimestamps => C24_BucketInvariant

-----------------------------------------------------------------------------
(* Properties of the emit() generators                                     *)

\* the records yielded so far are the first ones of `finalized`, and all of
\* them once the generator is done
YieldsOnly(gen, finalized) ==
    gen.called =>
        /\ Len(gen.recs) <= Len(finalized)
        /\ \A j \in DOMAIN gen.recs : gen.recs[j] = finalized[j]
        /\ gen.done => Len(gen.recs) = Len(finalized)

\* C25: the records one emit() sequence yields reflect only the samples added
\* before emit() was called: add calls interleaved with consuming the sequence
\* change neither the values of the records it yields nor the set of windows
\* it yields, for both aggregators.
C25_EmitFinalizedAtCall ==
    out.fn = "emit" =>
        /\ out.power.called => YieldsOnly(out.power, emitPower(out.power.atCall).recs)
        /\ out.usage.called => YieldsOnly(out.usage, emitUsage(out.usage.atCall))

-----------------------------------------------------------------------------
(* Properties of the throttled record                                      *)

ThrottleApplied == out.fn = "applyThrottle" /\ out.evaluation.throttle_applied

\* C26: for every record and evaluation with throttle_applied = true, the
\* record applyThrottle returns has enst recomputed from its own throttled
\* pair: work_units / energy_j of the returned record when its energy_j > 0
\* and its work_units is present, and null otherwise (enst equals computeEnst
\* of the returned record; no enst of the unthrottled record survives).
C26_EnstOfThrottledPair ==
    ThrottleApplied => out.ret.enst = computeEnst(out.ret)

\* the same when the factor leaves the record some energy
EnstOfThrottledPairWithEnergy ==
    (ThrottleApplied /\ (Present(tsv.energy_j) => JsGt(out.ret.energy_j, Num(0))))
        => out.ret.enst = computeEnst(out.ret)

-----------------------------------------------------------------------------
(* Properties of applyPolicyStream                                         *)

ThrottleMetadata == {"_policy_throttled", "_throttle_factor", "_migrate_flag"}

\* the properties an object has
OwnFields(r) == {f \in TsvFields : r[f] # Undef}

\* the properties of a yielded object: those of the record applyThrottle
\* returned, and the _policy_evaluation the stream stores on it
YieldedFields(y) == OwnFields(y.rec) \cup {"_policy_evaluation"}

\* an untouched record has the input's fields and values and no throttle
\* metadata
UntouchedCopy(rec, t) ==
    /\ OwnFields(rec) = OwnFields(t)
    /\ \A f \in OwnFields(t) : rec[f] = t[f]
    /\ OwnFields(rec) \cap ThrottleMetadata = {}

\* one record per input record, in input order, the inputs left as given
OnePerInput ==
    /\ out.input = out.given
    /\ Len(out.yielded) <= Len(out.input)
    /\ out.done => Len(out.yielded) = Len(out.input)
    /\ \A i \in DOMAIN out.yielded :
          /\ out.yielded[i].evaluation =
                evaluatePolicy(out.given[i], MergedPolicy(out.policy))
          /\ ~out.yielded[i].evaluation.throttle_applied
                => UntouchedCopy(out.yielded[i].rec, out.given[i])
          /\ out.yielded[i].evaluation.throttle_applied
                => ThrottleMetadata \subseteq OwnFields(out.yielded[i].rec)

\* C27 as stated: applyThrottle never modifies its input record; when
\* throttle_applied = false it returns a new object with exactly the input's
\* fields and values and none of the throttle metadata fields, and
\* applyPolicyStream yields one such record per input record, in input order.
C27_StreamYieldsUntouchedCopies ==
    out.fn = "applyPolicyStream" =>
        /\ OnePerInput
        /\ \A i \in DOMAIN out.yielded :
              ~out.yielded[i].evaluation.throttle_applied
                  => YieldedFields(out.yielded[i]) = OwnFields(out.given[i])

\* C27: the same, where the record the stream yields is the one applyThrottle
\* returned with one more property, _policy_evaluation, that holds the
\* evaluation of its input record.
C27_StreamYieldsCopiesWithEvaluation ==
    out.fn = "applyPolicyStream" =>
        /\ OnePerInput
        /\ \A i \in DOMAIN out.yielded :
              ~out.yielded[i].evaluation.throttle_applied
                  => YieldedFields(out.yielded[i])
                        = OwnFields(out.given[i]) \cup {"_policy_evaluation"}

\* a throttled record and then an untouched one went through the stream
C27_Witness ==
    /\ out.fn = "applyPolicyStream" /\ out.done
    /\ Len(out.yielded) = 2
    /\ out.yielded[1].evaluation.throttle_applied
    /\ out.yielded[1].rec # out.given[1]
    /\ ~out.yielded[2].evaluation.throttle_applied
    /\ out.yielded[2].evaluation.migrate_flag
    /\ out.yielded[2].rec = out.given[2]

-----------------------------------------------------------------------------
(* Properties of the order of addRecord calls                              *)

\* both leaderboards were read after they were fed the same records
SameRecordsRead ==
    /\ boardOut[1].reads = 1 /\ boardOut[2].reads = 1
    /\ SameMultiset(boardOut[1].fed, boardOut[2].fed)

\* the entry of the pair of e1 in the other leaderboard agrees with e1 on
\* the fields `fields`
AgreesOn(e1, others, fields) ==
    \E j \in DOMAIN others :
        /\ others[j].site_id = e1.site_id /\ others[j].cluster_id = e1.cluster_id
        /\ \A f \in fields : others[j][f] = e1[f]

EntryFields ==
    {"window_start", "window_end", "site_id", "cluster_id", "energy_j", "work_units",
     "work_units_mode", "enst_units_per_j", "pue", "thermal_headroom_w",
     "grid_stress_index", "price_usd_per_mwh", "cost_usd", "notes"}

EntriesAgreeOn(fields) ==
    SameRecordsRead =>
        /\ Len(boardOut[1].last) = Len(boardOut[2].last)
        /\ \A k \in DOMAIN boardOut[1].last :
              AgreesOn(boardOut[1].last[k], boardOut[2].last, fields)

\* C28: for every multiset of processed records, adding them to a fresh
\* EnstLeaderboard in any order produces, for each (site_id, cluster_id), an
\* entry with the same field values (energy_j, work_units, work_units_mode,
\* enst_units_per_j, means, price, cost, notes, window range).
C28_OrderIndependent == EntriesAgreeOn(EntryFields)

\* the sums, the means, the price, the cost and the window range do not
\* depend on the order
TotalsOrderIndependent == EntriesAgreeOn(EntryFields \ {"work_units_mode", "notes"})
ModeOrderIndependent == EntriesAgreeOn({"work_units_mode"})
NotesOrderIndependent == EntriesAgreeOn({"notes"})

-----------------------------------------------------------------------------
(* Properties of the throttled ENST                                        *)

\* the record has energy and work, and the factor of its evaluation is in [0, 1]
InThrottleRange(t, evaluation) ==
    /\ JsGt(t.energy_j, Num(0))
    /\ Present(t.work_units) /\ JsGe(t.work_units, Num(0))
    /\ JsGe(evaluation.throttle_factor, Num(0))
    /\ JsLe(evaluation.throttle_factor, Num(1))

\* the record applyThrottle returned for t has an enst of at most t's
\* work_units / energy_j, and that much only when the factor is 1 or the work 0
NotImproved(rec, t, evaluation) ==
    /\ JsLe(rec.enst, JsDiv(t.work_units, t.energy_j))
    /\ rec.enst = JsDiv(t.work_units, t.energy_j)
          => evaluation.throttle_factor = Num(1) \/ t.work_units = Num(0)

\* C29: for every record with energy_j > 0 and work_units >= 0 and every
\* throttle factor f with 0 <= f <= 1, the enst of the record applyThrottle
\* returns is at most work_units / energy_j of the original record, with
\* equality only when f = 1 or work_units = 0.
C29_ThrottlingNeverImprovesEnst ==
    out.fn = "applyPolicyStream" =>
        \A i \in DOMAIN out.yielded :
            InThrottleRange(out.given[i], out.yielded[i].evaluation)
                => NotImproved(out.yielded[i].rec, out.given[i], out.yielded[i].evaluation)

\* a record of 6 work units and 4 J (enst 1.5) was throttled by 0.5 to 3 work
\* units and 3 J (enst 1), and one was throttled by 0 to enst 0
C29_Witness ==
    /\ out.fn = "applyPolicyStream"
    /\ Len(out.yielded) >= 1
    /\ out.yielded[1].evaluation.throttle_applied
    /\ out.yielded[1].evaluation.throttle_factor = Rat(1, 2)
    /\ out.given[1].work_units = Num(6)
    /\ out.yielded[1].rec.enst = Num(1)

C29_WitnessZeroFactor ==
    /\ out.fn = "applyPolicyStream"
    /\ Len(out.yielded) >= 1
    /\ out.yielded[1].evaluation.throttle_applied
    /\ out.yielded[1].evaluation.throttle_factor = Num(0)
    /\ out.given[1].work_units = Num(6)
    /\ out.yielded[1].rec.enst = Num(0)

-----------------------------------------------------------------------------
(* Properties of the CSV text                                              *)

\* the positions of the separator in s, and the n-th of them (0 before the
\* first, Len(s) + 1 after the last)
SepAt(s, sep) == {i \in DOMAIN s : s[i] = sep}
NthSep(s, sep, n) ==
    IF n = 0 THEN 0
    ELSE IF n > Cardinality(SepAt(s, sep)) THEN Len(s) + 1
    ELSE CHOOSE p \in SepAt(s, sep) : Cardinality({q \in SepAt(s, sep) : q < p}) = n - 1

\* s.split(sep): the pieces of s between the separators
SplitOn(s, sep) ==
    [n \in 1..(Cardinality(SepAt(s, sep)) + 1) |->
        SubSeq(s, NthSep(s, sep, n - 1) + 1, NthSep(s, sep, n) - 1)]

CsvLines(csv) == SplitOn(csv, "\n")
CsvFieldsOf(line) == SplitOn(line, ",")

\* the header, then one line per entry
HeaderAndOneLinePerEntry(csv, leaderboard) ==
    /\ Len(CsvLines(csv)) = 1 + Len(leaderboard)
    /\ CsvFieldsOf(CsvLines(csv)[1]) = CsvHeader

FourteenFieldsPerLine(csv) ==
    \A l \in DOMAIN CsvLines(csv) : Len(CsvFieldsOf(CsvLines(csv)[l])) = 14

\* C30: after any addRecord sequence, every line of toCsv() has exactly the
\* 14 comma-separated fields named by the header row, the first line is that
\* header, and there is exactly one further line per leaderboard entry.
C30_FourteenFieldsPerLine ==
    \A i \in Instances :
        boardOut[i].csv # <<>> =>
            /\ HeaderAndOneLinePerEntry(boardOut[i].csv, boardOut[i].last)
            /\ FourteenFieldsPerLine(boardOut[i].csv)

\* the header and the line count alone
CsvHeaderAndLineCount ==
    \A i \in Instances :
        boardOut[i].csv # <<>> =>
            HeaderAndOneLinePerEntry(boardOut[i].csv, boardOut[i].last)

\* the same for sites fed from at most one data source
OneSourcePerSite ==
    \A i \in Instances : \A k \in DOMAIN board[i].sites :
        Len(board[i].sites[k].val.data_sources) <= 1
FourteenFieldsForOneSource == OneSourcePerSite => C30_FourteenFieldsPerLine

====
